---------------------------- MODULE Spec2Model ----------------------------
(***************************************************************************)
(* Model of the CRT simulation engine of hmndzzl/Fisica3_Proy2:            *)
(* src/Simul.py and src/simul_prueba.py (classes Electron, CRTSimulation). *)
(*                                                                         *)
(* UNITS.  The programs compute with floats in SI units.  The model uses   *)
(* integers in units chosen so that every quantity of the integration is   *)
(* an integer:                                                             *)
(*   length    1 unit = 1 nm                                               *)
(*   time      1 unit = one integration step dt = 2e-9 s (update_physics)  *)
(*   velocity  1 unit = 1 nm per dt                                        *)
(*   voltage   1 unit = 1/VOLT volt, VOLT = 35174, the number that makes   *)
(*             ELECTRON_CHARGE*dt^2 / (ELECTRON_MASS*PLATE_SEPARATION)     *)
(*             = 3.5174e-5 m/V equal to 1 nm per voltage unit: one         *)
(*             sub-step inside a plate pair at plate voltage V changes the *)
(*             transverse velocity by exactly V.                           *)
(*   simulated clock (self.time) in ms, as in the source.                  *)
(*   frequency 1 unit = 1/FREQ Hz, FREQ = 10000: one pixel of a frequency  *)
(*             slider is (10.0 - 0.1)/250 Hz = 396 units.                  *)
(*   phase     in degrees; angles of the sine in tenths of a degree.       *)
(*   brightness, alpha and the sine in thousandths.                        *)
(* In these units q/m = PLATE_SEPARATION, so sqrt(2*q*|Va|/m)*dt is        *)
(* sqrt(2*PLATE_SEPARATION*|Va|).                                          *)
(***************************************************************************)
EXTENDS Integers, Sequences, FiniteSets, TLC

(***************************************************************************)
(* Geometry and physical constants (module level of both programs).        *)
(***************************************************************************)
VOLT == 35174
SCREEN_SIZE == 200000000
PLATE_SEPARATION == 20000000
PLATE_LENGTH == 50000000
DISTANCE_TO_SCREEN == 150000000
DISTANCE_BETWEEN_PLATES == 30000000
DISTANCE_GUN_TO_PLATES == 50000000
Z_START == 1000000
DT == 1
SUBSTEPS == 100
PATH_MAXLEN == 1000
TRACES_MAXLEN == 5000
FRAME_MS == 16
BRIGHTNESS_FULL_VOLTS == 4000
FREQ == 10000
SLIDER_WIDTH == 250
PERSISTENCE_MIN == 50
PERSISTENCE_MAX == 2000
PERSISTENCE_INITIAL == 500
PHASE_MIN == 0
PHASE_MAX == 360
VERT_PHASE_INITIAL == 0
HORIZ_PHASE_INITIAL == 90

\* Slider ranges and initial values of setup_controls, in voltage units.
ACCEL_MIN == 500 * VOLT
ACCEL_MAX == 5000 * VOLT
ACCEL_INITIAL == 2000 * VOLT
PLATE_VOLTAGE_MAX == 300 * VOLT
PLATE_VOLTAGE_INITIAL == 0 * VOLT
AMPLITUDE_MIN == 50 * VOLT
AMPLITUDE_MAX == 300 * VOLT
AMPLITUDE_INITIAL == 150 * VOLT
FREQUENCY_MIN == FREQ \div 10
FREQUENCY_MAX == 10 * FREQ
VERT_FREQUENCY_INITIAL == 1 * FREQ
HORIZ_FREQUENCY_INITIAL == (3 * FREQ) \div 2

\* min_val and max_val of each Slider of setup_controls.
SliderMin ==
    [acceleration_voltage |-> ACCEL_MIN, persistence |-> PERSISTENCE_MIN,
     vertical_voltage |-> -PLATE_VOLTAGE_MAX,
     horizontal_voltage |-> -PLATE_VOLTAGE_MAX,
     vert_amplitude |-> AMPLITUDE_MIN, vert_frequency |-> FREQUENCY_MIN,
     vert_phase |-> PHASE_MIN,
     horiz_amplitude |-> AMPLITUDE_MIN, horiz_frequency |-> FREQUENCY_MIN,
     horiz_phase |-> PHASE_MIN]

SliderMax ==
    [acceleration_voltage |-> ACCEL_MAX, persistence |-> PERSISTENCE_MAX,
     vertical_voltage |-> PLATE_VOLTAGE_MAX,
     horizontal_voltage |-> PLATE_VOLTAGE_MAX,
     vert_amplitude |-> AMPLITUDE_MAX, vert_frequency |-> FREQUENCY_MAX,
     vert_phase |-> PHASE_MAX,
     horiz_amplitude |-> AMPLITUDE_MAX, horiz_frequency |-> FREQUENCY_MAX,
     horiz_phase |-> PHASE_MAX]

\* initial_val of each Slider of setup_controls.
SliderInitial ==
    [acceleration_voltage |-> ACCEL_INITIAL,
     persistence |-> PERSISTENCE_INITIAL,
     vertical_voltage |-> PLATE_VOLTAGE_INITIAL,
     horizontal_voltage |-> PLATE_VOLTAGE_INITIAL,
     vert_amplitude |-> AMPLITUDE_INITIAL,
     vert_frequency |-> VERT_FREQUENCY_INITIAL,
     vert_phase |-> VERT_PHASE_INITIAL,
     horiz_amplitude |-> AMPLITUDE_INITIAL,
     horiz_frequency |-> HORIZ_FREQUENCY_INITIAL,
     horiz_phase |-> HORIZ_PHASE_INITIAL]

SliderNames == DOMAIN SliderInitial

\* Sliders laid out on the same rectangle: 'vertical_voltage' and
\* 'vert_amplitude' at y = 265, 'horizontal_voltage' and 'vert_frequency'
\* at y = 310.  handle_events passes every event to every slider, so a
\* drag on the rectangle moves both.
SameRect(name) ==
    CASE name = "vertical_voltage" -> {"vertical_voltage", "vert_amplitude"}
      [] name = "vert_amplitude" -> {"vertical_voltage", "vert_amplitude"}
      [] name = "horizontal_voltage" -> {"horizontal_voltage", "vert_frequency"}
      [] name = "vert_frequency" -> {"horizontal_voltage", "vert_frequency"}
      [] OTHER -> {name}

(***************************************************************************)
(* Bounds of the model.                                                    *)
(***************************************************************************)
MaxFrames == 2
MaxEvents == 2
MaxCalls == 14
MaxFillFrames == 201
MaxQueryTime == 1100
MaxPanelEvents == 4
MaxTransitCalls == 4
MaxReplayCalls == 4
MaxDrawEvents == 3
MaxDrawFrames == 9
MaxPresetEvents == 3
MaxTraceEvents == 3
MaxStepEvents == 2
MaxStepFrames == 2
MaxChatEvents == 1
MaxChatFrames == 16
MaxTrailEvents == 3
MaxTrailFrames == 3
MaxTraceFrames == 3

\* The two programs: Simul.py and simul_prueba.py.
Variants == {"Simul", "prueba"}

\* Values the sliders are dragged to.  AccelGraze and PlateGraze are the
\* pair for which a transit ends exactly on the edge of the screen:
\* AccelGraze = 557.2 V gives vz*dt = 28 mm, PlateGraze = 284.3 V is one
\* kick of 10 mm per step, ten steps before the screen plane.
AccelGraze == 10 * 1400 * 1400
PlateGraze == PLATE_SEPARATION \div 2
AccelValues == {ACCEL_INITIAL, AccelGraze}
VerticalValues == {PLATE_VOLTAGE_INITIAL, PlateGraze, PLATE_VOLTAGE_MAX}
HorizontalValues == {PLATE_VOLTAGE_INITIAL, PlateGraze}
\* Arguments the Electron class is called with on its own: also no
\* acceleration voltage at all, and both signs of the plate voltage.
CallAccelValues == {0, ACCEL_MIN, ACCEL_MAX}
CallPlateValues == {-PLATE_VOLTAGE_MAX, 0, PlateGraze}
\* Clock.get_time(): milliseconds between the last two Clock.tick(60)
\* calls, a wall-clock measurement; 0 before the second tick.
ClockTimes == {16, 17}

(***************************************************************************)
(* Arithmetic helpers.                                                     *)
(***************************************************************************)
Abs(n) == IF n < 0 THEN -n ELSE n

Min(a, b) == IF a <= b THEN a ELSE b

Max(a, b) == IF a >= b THEN a ELSE b

\* Mutant: the time taken as tenths of a second.
TurnOfDeciseconds(f, t) == (((f * t) \div 1000) * 36) \div 10000

\* math.sin of an angle in tenths of a degree, in thousandths (Bhaskara's
\* formula 4p/(40500 - p), p = x(180 - x), on each half turn).
HalfWave(x) ==
    LET p == x * (1800 - x)
    IN  (400 * p) \div ((4050000 - p) \div 10)

Sin(angle) ==
    LET x == ((angle % 3600) + 3600) % 3600
    IN  IF x <= 1800 THEN HalfWave(x) ELSE -HalfWave(x - 1800)

\* 2*pi*f*t as an angle in tenths of a degree: f in 1/FREQ Hz, t in ms.
Turn(f, t) == (((f * t) \div 1000) * 36) \div ((FREQ * 1000) \div 100000)

RECURSIVE IsqrtIter(_, _, _)
IsqrtIter(n, lo, hi) ==
    IF lo >= hi THEN lo
    ELSE LET mid == (lo + hi + 1) \div 2
         IN  IF mid * mid <= n THEN IsqrtIter(n, mid, hi)
                                ELSE IsqrtIter(n, lo, mid - 1)

\* math.sqrt, rounded down to an integer.
Isqrt(n) == IsqrtIter(n, 0, 46340)

\* Mutant: a full deque drops its newest entry instead of its oldest.
DequeAppendDropsNewest(q, item, maxlen) ==
    IF Len(q) >= maxlen
    THEN Append(SubSeq(q, 1, Len(q) - 1), item)
    ELSE Append(q, item)

\* collections.deque(maxlen=...).append
DequeAppend(q, item, maxlen) ==
    IF Len(q) >= maxlen THEN Append(Tail(q), item) ELSE Append(q, item)

(***************************************************************************)
(* class Electron                                                          *)
(***************************************************************************)
\* Electron.reset
ElectronReset ==
    [x |-> 0, y |-> 0, z |-> Z_START, vx |-> 0, vy |-> 0, vz |-> 0,
     path |-> << >>, initial_acceleration_done |-> FALSE]

\* Mutant: reset() without its last assignment.
reset_without_flag(e) ==
    [e EXCEPT !.x = 0, !.y = 0, !.z = Z_START, !.vx = 0, !.vy = 0, !.vz = 0,
              !.path = << >>]

\* Electron.reset on an object in state e: every attribute is assigned.
reset(e) ==
    [e EXCEPT !.x = 0, !.y = 0, !.z = Z_START, !.vx = 0, !.vy = 0, !.vz = 0,
              !.path = << >>, !.initial_acceleration_done = FALSE]

\* Mutant: no impulse.
AxialVelocityNone(acceleration_voltage) == 0

\* vz = math.sqrt(2 * q * abs(Va) / m), as the distance covered in one dt,
\* resolved to 2000 nm per dt (1000 m/s).
AxialVelocity(acceleration_voltage) ==
    LET resolution == 2000
    IN  resolution *
          Isqrt(((2 * PLATE_SEPARATION) \div (resolution * resolution))
                  * Abs(acceleration_voltage))

vertical_plate_start == DISTANCE_GUN_TO_PLATES
vertical_plate_end == vertical_plate_start + PLATE_LENGTH
horizontal_plate_start == vertical_plate_end + DISTANCE_BETWEEN_PLATES
horizontal_plate_end == horizontal_plate_start + PLATE_LENGTH
screen_distance ==
    DISTANCE_GUN_TO_PLATES + PLATE_LENGTH + DISTANCE_BETWEEN_PLATES
      + PLATE_LENGTH + DISTANCE_TO_SCREEN

\* Mutant: the vertical field block without its lateral test.
InVerticalFieldAnyY(e) ==
    /\ vertical_plate_start <= e.z
    /\ e.z <= vertical_plate_end

\* Mutant: the lateral test against the full plate separation.
InVerticalFieldFullGap(e) ==
    /\ vertical_plate_start <= e.z
    /\ e.z <= vertical_plate_end
    /\ Abs(e.y) < PLATE_SEPARATION

\* The guards of the two field blocks of Electron.update.
InVerticalField(e) ==
    /\ vertical_plate_start <= e.z
    /\ e.z <= vertical_plate_end
    /\ Abs(e.y) < PLATE_SEPARATION \div 2

InHorizontalField(e) ==
    /\ horizontal_plate_start <= e.z
    /\ e.z <= horizontal_plate_end
    /\ Abs(e.x) < PLATE_SEPARATION \div 2

\* Mutant: both programs deflect to the same side.
PlateAccelerationSameSign(v, plate_voltage) == -plate_voltage

\* acceleration = force / ELECTRON_MASS for a plate voltage.
\*   Simul.py:        field = V/d,  force = -ELECTRON_CHARGE * field, charge > 0
\*   simul_prueba.py: field = -V/d, force =  ELECTRON_CHARGE * field, charge < 0
PlateAcceleration(v, plate_voltage) ==
    IF v = "Simul"
    THEN LET electric_field == plate_voltage
             force == -electric_field
         IN  force
    ELSE LET electric_field == -plate_voltage
             force == (-1) * electric_field
         IN  force

\* Mutant: the axial velocity is set again on every call.
AfterInitialAccelerationEveryCall(e, acceleration_voltage) ==
    IF Abs(acceleration_voltage) > 0
    THEN [e EXCEPT !.vz = AxialVelocity(acceleration_voltage),
                   !.initial_acceleration_done = TRUE]
    ELSE e

\* The one-time axial acceleration of Electron.update.
AfterInitialAcceleration(e, acceleration_voltage) ==
    IF ~e.initial_acceleration_done /\ Abs(acceleration_voltage) > 0
    THEN [e EXCEPT !.vz = AxialVelocity(acceleration_voltage),
                   !.initial_acceleration_done = TRUE]
    ELSE e

\* The two field blocks of Electron.update: vy, then vx.
AfterFields(v, e, dt, vertical_voltage, horizontal_voltage) ==
    LET vy1 == IF InVerticalField(e)
               THEN e.vy + PlateAcceleration(v, vertical_voltage) * dt
               ELSE e.vy
        vx1 == IF InHorizontalField(e)
               THEN e.vx + PlateAcceleration(v, horizontal_voltage) * dt
               ELSE e.vx
    IN  [e EXCEPT !.vy = vy1, !.vx = vx1]

\* Mutant: y is advanced by the axial velocity.
AfterKinematicsWrongAxis(e, dt) ==
    LET x1 == e.x + e.vx * dt
        y1 == e.y + e.vz * dt
        z1 == e.z + e.vz * dt
    IN  [e EXCEPT !.x = x1, !.y = y1, !.z = z1,
                  !.path = DequeAppend(e.path, <<x1, y1, z1>>, PATH_MAXLEN)]

\* The position update of Electron.update, and the path entry.
AfterKinematics(e, dt) ==
    LET x1 == e.x + e.vx * dt
        y1 == e.y + e.vy * dt
        z1 == e.z + e.vz * dt
    IN  [e EXCEPT !.x = x1, !.y = y1, !.z = z1,
                  !.path = DequeAppend(e.path, <<x1, y1, z1>>, PATH_MAXLEN)]

\* Mutant: the positions are advanced before the velocities.
ElectronUpdatePositionFirst(v, e, dt, acceleration_voltage, vertical_voltage, horizontal_voltage) ==
    LET accelerated == AfterInitialAcceleration(e, acceleration_voltage)
        moved == AfterKinematics(accelerated, dt)
        kicked == AfterFields(v, accelerated, dt, vertical_voltage,
                              horizontal_voltage)
    IN  [moved EXCEPT !.vx = kicked.vx, !.vy = kicked.vy]

\* Electron.update
ElectronUpdate(v, e, dt, acceleration_voltage, vertical_voltage, horizontal_voltage) ==
    AfterKinematics(
        AfterFields(v,
                    AfterInitialAcceleration(e, acceleration_voltage),
                    dt, vertical_voltage, horizontal_voltage),
        dt)

\* Electron.has_hit_screen
has_hit_screen(e) == e.z >= screen_distance

\* Electron.get_screen_position
get_screen_position(e) == <<e.x, e.y>>

\* Mutant: the edge of the screen is out of bounds.
is_within_screen_bounds_strict(e) ==
    Abs(e.x) < SCREEN_SIZE \div 2 /\ Abs(e.y) < SCREEN_SIZE \div 2

\* Electron.is_within_screen_bounds
is_within_screen_bounds(e) ==
    Abs(e.x) <= SCREEN_SIZE \div 2 /\ Abs(e.y) <= SCREEN_SIZE \div 2

(***************************************************************************)
(* class CRTSimulation: state.                                             *)
(***************************************************************************)
(***************************************************************************)
(* simulacionChatGPT.py: the closed-form simulation.                       *)
(*                                                                         *)
(* Its positions are Python floats.  The model keeps the rounding rule of  *)
(* binary floating point (every operation is rounded to the nearest        *)
(* representable value, ties to even) with MANTISSA_BITS significant bits  *)
(* in place of 53.  A float is held as a whole number of quanta of         *)
(* 2^-QUANTUM_BITS; below 2^(MANTISSA_BITS - QUANTUM_BITS) the values are  *)
(* the multiples of one quantum.  Times are in units of 1e-4 s and exact,  *)
(* frequencies in 1/100 Hz, phases and angles in tenths of a degree.       *)
(***************************************************************************)
MANTISSA_BITS == 9
QUANTUM_BITS == 12
Quantum == 2^QUANTUM_BITS

\* a / d rounded to the nearest integer, ties to even (a >= 0, d > 0)
RoundHalfEven(a, d) ==
    LET f == a \div d
        r == a % d
    IN  IF 2 * r > d \/ (2 * r = d /\ f % 2 = 1) THEN f + 1 ELSE f

\* The binade of q quanta: the spacing of the floats around q is 2^k quanta.
FloatExponent(q) ==
    CHOOSE k \in 0..(30 - MANTISSA_BITS) :
        /\ q < 2^(MANTISSA_BITS + k)
        /\ k = 0 \/ q >= 2^(MANTISSA_BITS + k - 1)

\* The float nearest to num / den quanta (den > 0).
FloatRound(num, den) ==
    LET a == Abs(num)
        step == 2^FloatExponent(a \div den)
        m == RoundHalfEven(a, den * step) * step
    IN  IF num < 0 THEN -m ELSE m

\* The float of the literal n / d, a * b and a / b of two floats.
FloatOf(n, d) == FloatRound(n * Quantum, d)
FloatMul(a, b) == FloatRound(a * b, Quantum)
FloatDiv(a, b) == FloatRound(a * Quantum, b)

\* The gap between a float and the next one above it.
Ulp(a) == 2^FloatExponent(Abs(a))

\* Geometry, in mm
GEO_plate_len == 50
GEO_plate_gap == 6
GEO_drift == 200

SCREEN_SCALE == FloatOf(10, 1)
CHAT_DT == 200
DT_LISS == 100
TIME_SCALE_PERCENT == 175
TRAIL_MAXLEN == 2000
\* the 1e-9 that guards the divisions: the smallest positive value
TINY == 1

\* margin = SCREEN_SCALE * 0.95
margin == FloatMul(SCREEN_SCALE, FloatOf(95, 100))

\* deflection_gain(Va) = SCREEN_SCALE * K_meters / max(Va, 0.05), with
\* K_meters = plate_len * (drift + plate_len / 2) / (2 * gap) in metres.
deflection_gain(Va) ==
    LET Va_eff == Max(Va, FloatOf(5, 100))
        K_meters == FloatRound(
                        GEO_plate_len * (2 * GEO_drift + GEO_plate_len)
                          * Quantum,
                        4 * GEO_plate_gap * 1000)
    IN  FloatDiv(FloatMul(SCREEN_SCALE, K_meters), Va_eff)

\* 2*pi*f*t as an angle in tenths of a degree, within one turn.
ChatTurn(f, t) == (((f * t) % 1000000) * 36) \div 10000

\* np.sin of an angle in tenths of a degree, as a float
FloatSin(angle) == FloatRound(Sin(angle) * Quantum, 1000)

\* np.clip
Clip(a, lo, hi) == IF a < lo THEN lo ELSE IF a > hi THEN hi ELSE a

\* Mutant: the deflections are never scaled down.
ScaleFactorOne(max_abs) == Quantum

\* scale = min(1.0, margin / max_abs)
ScaleFactor(max_abs) == Min(Quantum, FloatDiv(margin, max_abs))

\* The unscaled deflections of compute_xy in Lissajous mode.
RawXY(c, t) ==
    LET K == deflection_gain(c.Va)
        vx == FloatMul(c.Vx, FloatSin(ChatTurn(c.fx, t) + c.phx))
        vy == FloatMul(c.Vy, FloatSin(ChatTurn(c.fy, t) + c.phy))
    IN  <<FloatMul(K, vx), FloatMul(K, vy)>>

\* compute_xy(t) with the controls c.
compute_xy(c, mode_lissajous, t) ==
    LET K == deflection_gain(c.Va)
    IN  IF mode_lissajous
        THEN LET raw == RawXY(c, t)
                 max_abs == Max(Max(Abs(raw[1]), Abs(raw[2])), TINY)
                 scale == ScaleFactor(max_abs)
             IN  <<FloatMul(raw[1], scale), FloatMul(raw[2], scale)>>
        ELSE LET raw_x == FloatMul(K, c.Vx)
                 raw_y == FloatMul(K, c.Vy)
             IN  <<Clip(raw_x, -margin, margin), Clip(raw_y, -margin, margin)>>

\* Controls() and Runtime() (tau and dragging, which neither the position
\* nor the trail reads, are left out).
Controls ==
    [Va |-> FloatOf(8, 10), Vx |-> FloatOf(3, 1), Vy |-> FloatOf(3, 1),
     fx |-> 200, fy |-> 300, phx |-> 0, phy |-> 900]

Runtime ==
    [t |-> 0, mode_lissajous |-> TRUE, paused |-> FALSE, trail |-> << >>,
     x |-> 0, y |-> 0]

\* _actualizar_rangos_voltajes: the limit of the sliders Vx and Vy.
Vlim(Va) == FloatDiv(margin, Max(deflection_gain(Va), TINY))

\* The slider values after the module has run: s_Vx and s_Vy were created
\* on C.Vx and C.Vy and then cut to the limit, before any callback was
\* connected.
ChatSliders ==
    [Controls EXCEPT !.Vx = Clip(@, -Vlim(Controls.Va), Vlim(Controls.Va)),
                     !.Vy = Clip(@, -Vlim(Controls.Va), Vlim(Controls.Va))]

VARIABLES
    variant,           \* which program runs: "Simul" or "prueba"
    pc,                \* position in run() / update_physics / the harness
    i,                 \* sub-steps done in the loop of update_physics
    frames,            \* iterations of the run loop completed
    events,            \* user events handled so far
    time,              \* self.time, simulated ms
    clock_time,        \* self.clock.get_time()
    simulation_speed,  \* self.simulation_speed: 1, or 0 when paused
    electron,          \* self.electron
    screen_traces,     \* self.screen_traces, deque(maxlen=5000)
    sliders,           \* self.sliders[...].val
    volts,             \* locals vertical_voltage, horizontal_voltage
    call,              \* the last call made on self.electron
    twin,              \* a second run fed the same events and frames
    mode,              \* self.mode: "manual" or "lissajous"
    show_presets,      \* self.show_presets
    preset_buttons,    \* self.preset_buttons is filled (a draw built it)
    drawn,             \* what draw_screen_view painted in its last pass
    event,             \* the event handle_events has just handled
    S,                 \* simulacionChatGPT.py: S, the Runtime
    C                  \* simulacionChatGPT.py: C, the Controls

vars == <<variant, pc, i, frames, events, time, clock_time,
          simulation_speed, electron, screen_traces, sliders, volts,
          call, twin, mode, show_presets, preset_buttons, drawn, event,
          S, C>>

\* The state of the control panel and of the display.
panel == <<mode, show_presets, preset_buttons, drawn, event>>

NoEvent == [type |-> "none"]

\* Nothing painted yet.
NothingDrawn ==
    [circles |-> << >>, skipped |-> {}, skipped_before |-> {},
     voltages |-> <<0, 0>>]

\* The last call made on the Electron object, with its arguments.
ResetCall ==
    [op |-> "reset", acceleration_voltage |-> 0, vertical_voltage |-> 0,
     horizontal_voltage |-> 0]

UpdateCall(acceleration_voltage, vertical_voltage, horizontal_voltage) ==
    [op |-> "update", acceleration_voltage |-> acceleration_voltage,
     vertical_voltage |-> vertical_voltage,
     horizontal_voltage |-> horizontal_voltage]

\* The runtime state of a run that the second run keeps for itself.
TwinInit ==
    [clock_time |-> 0, time |-> 0, volts |-> <<0, 0>>,
     electron |-> ElectronReset, screen_traces |-> << >>]

\* CRTSimulation.__init__ and setup_controls
Construction ==
    /\ variant \in Variants
    /\ i = 0
    /\ frames = 0
    /\ events = 0
    /\ time = 0
    /\ clock_time = 0
    /\ simulation_speed = 1
    /\ electron = ElectronReset
    /\ screen_traces = << >>
    /\ sliders = SliderInitial
    /\ volts = <<0, 0>>
    /\ call = ResetCall
    /\ twin = TwinInit
    /\ mode = "manual"
    /\ show_presets = FALSE
    /\ preset_buttons = FALSE
    /\ drawn = NothingDrawn
    /\ event = NoEvent
    /\ S = Runtime
    /\ C = Controls

\* run() starts at the head of its loop.
Init == Construction /\ pc = "handle_events"

(***************************************************************************)
(* CRTSimulation.handle_events: one user event of the queue.               *)
(***************************************************************************)
UserEvents ==
    {[type |-> "pause"], [type |-> "clear"], [type |-> "reset"]}
      \cup {[type |-> "slider", name |-> "acceleration_voltage", val |-> v] :
              v \in AccelValues}
      \cup {[type |-> "slider", name |-> "vertical_voltage", val |-> v] :
              v \in VerticalValues}
      \cup {[type |-> "slider", name |-> "horizontal_voltage", val |-> v] :
              v \in HorizontalValues}

\* K_SPACE and the pause button
SpeedAfterEvent(ev, speed) ==
    IF ev.type = "pause" THEN (IF speed > 0 THEN 0 ELSE 1) ELSE speed

\* Mutant: K_r clears the screen as well.
TracesAfterEventResetClears(ev, traces) ==
    IF ev.type \in {"clear", "reset"} THEN << >> ELSE traces

\* K_c and the clear button: screen_traces.clear()
TracesAfterEvent(ev, traces) ==
    IF ev.type = "clear" THEN << >> ELSE traces

\* Mutant: a preset restart keeps the screen.
TracesAfterRestartKept(restarts, ev, traces) == TracesAfterEvent(ev, traces)

\* The trace buffer after one event: an applied preset of Simul.py clears
\* it (screen_traces.clear() before self.time = 0.0).
TracesAfterRestart(restarts, ev, traces) ==
    IF restarts THEN << >> ELSE TracesAfterEvent(ev, traces)

\* K_r: electron.reset()
ElectronAfterEvent(ev, e) ==
    IF ev.type = "reset" THEN reset(e) ELSE e

\* Slider.handle_event: rel_x is a whole pixel of 0..width and
\* val = min_val + (rel_x / width) * (max_val - min_val), here rounded down
\* to the unit of the slider.
SliderValue(name, rel_x) ==
    LET range == SliderMax[name] - SliderMin[name]
    IN  SliderMin[name] + (range \div SLIDER_WIDTH) * rel_x
          + ((range % SLIDER_WIDTH) * rel_x) \div SLIDER_WIDTH

\* The pixel the mouse is on when the slider shows val (a pixel is worth
\* between range \div width and that plus one).
SliderPixel(name, val) ==
    LET step == (SliderMax[name] - SliderMin[name]) \div SLIDER_WIDTH
        low == (val - SliderMin[name]) \div (step + 1)
        high == Min(SLIDER_WIDTH, (val - SliderMin[name]) \div step)
    IN  CHOOSE rel_x \in low..high :
            /\ SliderValue(name, rel_x) <= val
            /\ rel_x < SLIDER_WIDTH => SliderValue(name, rel_x + 1) > val

\* Slider.handle_event of every slider, for a drag that ends with slider
\* ev.name on ev.val: the other slider on the same rectangle follows.
SlidersAfterEvent(ev, sl) ==
    IF ev.type = "slider"
    THEN [n \in SliderNames |->
            IF n = ev.name THEN ev.val
            ELSE IF n \in SameRect(ev.name)
                 THEN SliderValue(n, SliderPixel(ev.name, ev.val))
                 ELSE sl[n]]
    ELSE sl

\* The manual and lissajous buttons
ModeAfterEvent(ev, m) == IF ev.type = "mode" THEN ev.name ELSE m

\* self.lissajous_presets: rows of five presets; name is the angle delta of
\* the preset's label, fv and fh are in Hz, phase in degrees.
lissajous_presets(v) ==
    IF v = "Simul"
    THEN [r \in {"1:1", "1:2", "1:3", "2:3"} |->
            CASE r = "1:1" -> <<[name |-> 0, fv |-> 1, fh |-> 1, phase |-> 0],
                                [name |-> 45, fv |-> 1, fh |-> 1, phase |-> 45],
                                [name |-> 90, fv |-> 1, fh |-> 1, phase |-> 90],
                                [name |-> 135, fv |-> 1, fh |-> 1, phase |-> 135],
                                [name |-> 180, fv |-> 1, fh |-> 1, phase |-> 180]>>
              [] r = "1:2" -> <<[name |-> 0, fv |-> 2, fh |-> 1, phase |-> 90],
                                [name |-> 45, fv |-> 2, fh |-> 1, phase |-> 45],
                                [name |-> 90, fv |-> 2, fh |-> 1, phase |-> 0],
                                [name |-> 135, fv |-> 2, fh |-> 1, phase |-> 135],
                                [name |-> 180, fv |-> 2, fh |-> 1, phase |-> 270]>>
              [] r = "1:3" -> <<[name |-> 0, fv |-> 3, fh |-> 1, phase |-> 180],
                                [name |-> 45, fv |-> 3, fh |-> 1, phase |-> 135],
                                [name |-> 90, fv |-> 3, fh |-> 1, phase |-> 90],
                                [name |-> 135, fv |-> 3, fh |-> 1, phase |-> 45],
                                [name |-> 180, fv |-> 3, fh |-> 1, phase |-> 0]>>
              [] r = "2:3" -> <<[name |-> 0, fv |-> 3, fh |-> 2, phase |-> 45],
                                [name |-> 45, fv |-> 3, fh |-> 2, phase |-> 0],
                                [name |-> 90, fv |-> 3, fh |-> 2, phase |-> 135],
                                [name |-> 135, fv |-> 3, fh |-> 2, phase |-> 180],
                                [name |-> 180, fv |-> 3, fh |-> 2, phase |-> 135]>>]
    ELSE [r \in {"1:1", "1:2", "1:3", "2:3"} |->
            CASE r = "1:1" -> <<[name |-> 0, fv |-> 1, fh |-> 1, phase |-> 0],
                                [name |-> 45, fv |-> 1, fh |-> 1, phase |-> 45],
                                [name |-> 90, fv |-> 1, fh |-> 1, phase |-> 90],
                                [name |-> 135, fv |-> 1, fh |-> 1, phase |-> 135],
                                [name |-> 180, fv |-> 1, fh |-> 1, phase |-> 180]>>
              [] r = "1:2" -> <<[name |-> 0, fv |-> 2, fh |-> 1, phase |-> 0],
                                [name |-> 45, fv |-> 2, fh |-> 1, phase |-> 45],
                                [name |-> 90, fv |-> 2, fh |-> 1, phase |-> 90],
                                [name |-> 135, fv |-> 2, fh |-> 1, phase |-> 135],
                                [name |-> 180, fv |-> 2, fh |-> 1, phase |-> 180]>>
              [] r = "1:3" -> <<[name |-> 0, fv |-> 3, fh |-> 1, phase |-> 180],
                                [name |-> 45, fv |-> 3, fh |-> 1, phase |-> 45],
                                [name |-> 90, fv |-> 3, fh |-> 1, phase |-> 90],
                                [name |-> 135, fv |-> 3, fh |-> 1, phase |-> 135],
                                [name |-> 180, fv |-> 3, fh |-> 1, phase |-> 0]>>
              [] r = "2:3" -> <<[name |-> 0, fv |-> 3, fh |-> 2, phase |-> 0],
                                [name |-> 45, fv |-> 3, fh |-> 2, phase |-> 45],
                                [name |-> 90, fv |-> 3, fh |-> 2, phase |-> 90],
                                [name |-> 135, fv |-> 3, fh |-> 2, phase |-> 135],
                                [name |-> 180, fv |-> 3, fh |-> 2, phase |-> 180]>>]

\* A click on a button of the preset table applies its preset only in
\* lissajous mode, with the menu open, once a draw has built the buttons.
\* m is the mode after the mode buttons have handled the event.
PresetApplies(ev, m, show, built) ==
    ev.type = "preset" /\ m = "lissajous" /\ show /\ built

\* The preset block of handle_events on the sliders.
\*   Simul.py:        horiz_phase = 0, vert_phase = preset['phase']
\*   simul_prueba.py: horiz_phase = preset['phase'], vert_phase untouched
SlidersAfterPreset(v, preset, sl) ==
    IF v = "Simul"
    THEN [sl EXCEPT !.horiz_frequency = preset.fh * FREQ,
                    !.vert_frequency = preset.fv * FREQ,
                    !.horiz_phase = 0,
                    !.vert_phase = preset.phase]
    ELSE [sl EXCEPT !.vert_frequency = preset.fv * FREQ,
                    !.horiz_frequency = preset.fh * FREQ,
                    !.horiz_phase = preset.phase]

\* The 'Tabla Lissajous' button toggles the menu in lissajous mode; an
\* applied preset closes it.
ShowPresetsAfterEvent(ev, m, show, built) ==
    IF ev.type = "preset_menu" /\ m = "lissajous" THEN ~show
    ELSE IF PresetApplies(ev, m, show, built) THEN FALSE
    ELSE show

\* Mutant: a preset is applied without the restart.
PresetRestartsNever(v, ev, m, show, built) == FALSE

\* Simul.py restarts the simulation when it applies a preset
\* (electron.reset(), screen_traces.clear(), time = 0.0);
\* simul_prueba.py does not.
PresetRestarts(v, ev, m, show, built) ==
    v = "Simul" /\ PresetApplies(ev, m, show, built)

\* One event of the loop of handle_events.
HandleEventEffect(ev) ==
    LET m == ModeAfterEvent(ev, mode)
        applies == PresetApplies(ev, m, show_presets, preset_buttons)
        restarts == PresetRestarts(variant, ev, m, show_presets,
                                   preset_buttons)
    IN  /\ simulation_speed' = SpeedAfterEvent(ev, simulation_speed)
        /\ screen_traces' = TracesAfterRestart(restarts, ev, screen_traces)
        /\ electron' = IF restarts THEN reset(electron)
                       ELSE ElectronAfterEvent(ev, electron)
        /\ time' = IF restarts THEN 0 ELSE time
        /\ sliders' = IF applies
                      THEN SlidersAfterPreset(
                               variant,
                               lissajous_presets(variant)[ev.row][ev.col],
                               sliders)
                      ELSE SlidersAfterEvent(ev, sliders)
        /\ mode' = m
        /\ show_presets' = ShowPresetsAfterEvent(ev, m, show_presets,
                                                 preset_buttons)
        /\ event' = ev

HandleEventBounded(ev, maxEvents, maxFrames) ==
    /\ pc = "handle_events"
    /\ events < maxEvents
    /\ frames < maxFrames
    /\ ev.type = "slider" => sliders[ev.name] # ev.val
    /\ events' = events + 1
    /\ HandleEventEffect(ev)
    /\ UNCHANGED <<S, C, variant, pc, i, frames, clock_time, volts,
                   preset_buttons, drawn>>

HandleEventCore(ev, maxFrames) == HandleEventBounded(ev, MaxEvents, maxFrames)

\* The event queue is empty: run() goes on to update_physics.
EndEventsCore(maxFrames) ==
    /\ pc = "handle_events"
    /\ frames < maxFrames
    /\ pc' = "update_physics"
    /\ event' = NoEvent
    /\ UNCHANGED <<S, C, variant, i, frames, events, time, clock_time,
                   simulation_speed, electron, screen_traces, sliders,
                   volts, mode, show_presets, preset_buttons, drawn>>

(***************************************************************************)
(* CRTSimulation.get_voltages and update_physics.                          *)
(***************************************************************************)
\* amplitude * math.sin(angle): amplitude in voltage units, the sine in
\* thousandths.
Sinusoid(amplitude, angle) == (amplitude \div 1000) * Sin(angle)

\* Mutant: the waveform in every mode.
get_voltages_waveform_only(v, m, sl, t) ==
    <<Sinusoid(sl.vert_amplitude,
               Turn(sl.vert_frequency, t) + sl.vert_phase * 10),
      Sinusoid(sl.horiz_amplitude,
               Turn(sl.horiz_frequency, t) + sl.horiz_phase * 10)>>

\* get_voltages at simulated time t (ms): (vertical, horizontal).
\*   Simul.py:        delta = vert_phase - horiz_phase, applied to Y only
\*   simul_prueba.py: each axis with the phase of its own slider
get_voltages(v, m, sl, t) ==
    IF m = "manual"
    THEN <<sl.vertical_voltage, sl.horizontal_voltage>>
    ELSE IF v = "Simul"
    THEN LET delta == (sl.vert_phase - sl.horiz_phase) * 10
             horiz_v == Sinusoid(sl.horiz_amplitude,
                                 Turn(sl.horiz_frequency, t))
             vert_v == Sinusoid(sl.vert_amplitude,
                                Turn(sl.vert_frequency, t) + delta)
         IN  <<vert_v, horiz_v>>
    ELSE LET vert_v == Sinusoid(sl.vert_amplitude,
                                Turn(sl.vert_frequency, t)
                                  + sl.vert_phase * 10)
             horiz_v == Sinusoid(sl.horiz_amplitude,
                                 Turn(sl.horiz_frequency, t)
                                   + sl.horiz_phase * 10)
         IN  <<vert_v, horiz_v>>

\* Simul.py advances self.time by clock.get_time() * simulation_speed at
\* the head of update_physics; simul_prueba.py does not.
TimeAtPhysics(v, t, clock, speed) ==
    IF v = "Simul" THEN t + clock * speed ELSE t

\* brightness = min(1.0, acceleration_voltage / 4000.0), in thousandths
Brightness(acceleration_voltage) ==
    Min(1000, acceleration_voltage \div ((BRIGHTNESS_FULL_VOLTS * VOLT) \div 1000))

\* Mutant: the stamp moves on with the sub-steps of the transit.
TraceEventStampedBySubStep(e, t, acceleration_voltage) ==
    [x |-> get_screen_position(e)[1], y |-> get_screen_position(e)[2],
     time |-> t + Len(e.path), brightness |-> Brightness(acceleration_voltage)]

\* The dict update_physics appends to screen_traces.
TraceEvent(e, t, acceleration_voltage) ==
    [x |-> get_screen_position(e)[1], y |-> get_screen_position(e)[2],
     time |-> t, brightness |-> Brightness(acceleration_voltage)]

\* The hit block of the sub-step loop: the trace buffer afterwards ...
TracesAfterHitCheck(e, traces, t, acceleration_voltage) ==
    IF has_hit_screen(e) /\ is_within_screen_bounds(e)
    THEN DequeAppend(traces, TraceEvent(e, t, acceleration_voltage),
                     TRACES_MAXLEN)
    ELSE traces

\* Mutant: an out-of-bounds hit is not reset.
ElectronAfterHitCheckInBoundsOnly(e) ==
    IF has_hit_screen(e) /\ is_within_screen_bounds(e)
    THEN reset(e) ELSE e

\* ... and the electron afterwards.
ElectronAfterHitCheck(e) ==
    IF has_hit_screen(e) THEN reset(e) ELSE e

\* Head of update_physics: the pause test, the clock, get_voltages.
PhysicsBeginCore ==
    /\ pc = "update_physics"
    /\ IF simulation_speed = 0
       THEN /\ pc' = "tick"
            /\ UNCHANGED <<time, volts, i>>
       ELSE /\ time' = TimeAtPhysics(variant, time, clock_time,
                                     simulation_speed)
            /\ volts' = get_voltages(variant, mode, sliders, time')
            /\ i' = 0
            /\ pc' = "update"
    /\ UNCHANGED <<S, C, variant, frames, events, clock_time, simulation_speed,
                   electron, screen_traces, sliders>>
    /\ UNCHANGED panel

\* Loop body, first half: self.electron.update(dt, Va, Vv, Vh)
SubStepUpdateCore ==
    /\ pc = "update"
    /\ electron' = ElectronUpdate(variant, electron, DT,
                                  sliders.acceleration_voltage,
                                  volts[1], volts[2])
    /\ pc' = "check"
    /\ UNCHANGED <<S, C, variant, i, frames, events, time, clock_time,
                   simulation_speed, screen_traces, sliders, volts>>
    /\ UNCHANGED panel

\* Loop body, second half: the hit test, the trace, the reset.
SubStepCheckCore ==
    /\ pc = "check"
    /\ screen_traces' = TracesAfterHitCheck(electron, screen_traces, time,
                                            sliders.acceleration_voltage)
    /\ electron' = ElectronAfterHitCheck(electron)
    /\ i' = i + 1
    /\ pc' = IF i + 1 < SUBSTEPS THEN "update" ELSE "tick"
    /\ UNCHANGED <<S, C, variant, frames, events, time, clock_time,
                   simulation_speed, sliders, volts>>
    /\ UNCHANGED panel

(***************************************************************************)
(* CRTSimulation.run: the end of one loop iteration.                       *)
(***************************************************************************)
\* Mutant: the run loop adds its 16 ms in a paused frame too.
TimeAtTickPausedToo(t, speed) == t + FRAME_MS

\* if self.simulation_speed > 0: self.time += 16
TimeAtTick(t, speed) == IF speed > 0 THEN t + FRAME_MS ELSE t

\* draw_screen_view: an event is painted if age < persistence * 2 ...
IsVisible(trace, current_time, persistence) ==
    current_time - trace.time < persistence * 2

\* ... and its pixel is inside view_rect (650 x 400, the screen mapped on
\* 610 x 360 pixels around its centre).
CollidePoint(trace) ==
    LET offset_x == ((trace.x \div 1000) * 610) \div (SCREEN_SIZE \div 1000)
        offset_y == ((trace.y \div 1000) * 360) \div (SCREEN_SIZE \div 1000)
    IN  /\ -325 <= offset_x /\ offset_x < 325
        /\ -200 < offset_y /\ offset_y <= 200

\* alpha = max(0.1, 1 - age / (persistence * 2)), in thousandths
Alpha(age, persistence) ==
    Max(100, 1000 - ((age * 1000) \div (persistence * 2)))

\* The circle painted for an event: alpha, int(255 * alpha * brightness)
\* and max(2, int(7 * alpha * brightness)).
Circle(trace, current_time, persistence) ==
    LET alpha == Alpha(current_time - trace.time, persistence)
    IN  [trace |-> trace,
         alpha |-> alpha,
         intensity |-> (255 * alpha * trace.brightness) \div 1000000,
         size |-> Max(2, (7 * alpha * trace.brightness) \div 1000000)]

\* The pass of draw_screen_view over screen_traces: the circles painted,
\* in order, and the events skipped for their age (with those the pass
\* before had skipped).
draw_screen_view(traces, current_time, persistence, before) ==
    LET painted == SelectSeq(traces,
                             LAMBDA tr : /\ IsVisible(tr, current_time,
                                                      persistence)
                                         /\ CollidePoint(tr))
    IN  [circles |-> [k \in 1..Len(painted) |->
                        Circle(painted[k], current_time, persistence)],
         skipped |-> {traces[k] : k \in {j \in 1..Len(traces) :
                         ~IsVisible(traces[j], current_time, persistence)}},
         skipped_before |-> before.skipped]

\* Mutant: the pass drops the events it skips for their age.
TracesAfterDrawPruned(traces, current_time, persistence) ==
    SelectSeq(traces, LAMBDA tr : IsVisible(tr, current_time, persistence))

\* self.screen_traces after the pass: draw_screen_view only iterates over it.
TracesAfterDraw(traces, current_time, persistence) == traces

\* draw(): draw_screen_view paints the traces and draw_info prints the
\* pair get_voltages returns, paused or not.
draw(v, m, sl, traces, current_time, before) ==
    LET view == draw_screen_view(traces, current_time, sl.persistence, before)
    IN  [circles |-> view.circles, skipped |-> view.skipped,
         skipped_before |-> view.skipped_before,
         voltages |-> get_voltages(v, m, sl, current_time)]

\* draw_controls fills self.preset_buttons when it paints the table.
PresetButtonsAfterDraw(m, show, built) ==
    IF m = "lissajous" /\ show THEN TRUE ELSE built

\* draw(), self.clock.tick(60) measuring ms, then self.time += 16 unless
\* paused
TickCore(ms) ==
    /\ pc = "tick"
    /\ drawn' = draw(variant, mode, sliders, screen_traces, time, drawn)
    /\ screen_traces' = TracesAfterDraw(screen_traces, time,
                                        sliders.persistence)
    /\ preset_buttons' = PresetButtonsAfterDraw(mode, show_presets,
                                                preset_buttons)
    /\ clock_time' = ms
    /\ time' = TimeAtTick(time, simulation_speed)
    /\ frames' = frames + 1
    /\ pc' = "handle_events"
    /\ UNCHANGED <<S, C, variant,
                   i, events, simulation_speed, electron, sliders,
                   volts, mode, show_presets, event>>

(***************************************************************************)
(* One run of the program.                                                 *)
(***************************************************************************)
CallAfterEvent(ev, c) == IF ev.type = "reset" THEN ResetCall ELSE c

CallAfterHitCheck(e, c) == IF has_hit_screen(e) THEN ResetCall ELSE c

CallOfSubStep ==
    UpdateCall(sliders.acceleration_voltage, volts[1], volts[2])

HandleEvent == \E ev \in UserEvents :
    /\ HandleEventCore(ev, MaxFrames)
    /\ call' = CallAfterEvent(ev, call)
    /\ UNCHANGED twin

EndEvents == EndEventsCore(MaxFrames) /\ UNCHANGED <<call, twin>>

PhysicsBegin == PhysicsBeginCore /\ UNCHANGED <<call, twin>>

SubStepUpdate ==
    /\ SubStepUpdateCore
    /\ call' = CallOfSubStep
    /\ UNCHANGED twin

SubStepCheck ==
    /\ SubStepCheckCore
    /\ call' = CallAfterHitCheck(electron, call)
    /\ UNCHANGED twin

Tick == \E ms \in ClockTimes : TickCore(ms) /\ UNCHANGED <<call, twin>>

Next ==
    \/ HandleEvent
    \/ EndEvents
    \/ PhysicsBegin
    \/ SubStepUpdate
    \/ SubStepCheck
    \/ Tick

Spec == Init /\ [][Next]_vars

(***************************************************************************)
(* Two runs side by side: the same program, the same user events in the    *)
(* same frames, the same number of frames.  Each run has its own wall      *)
(* clock; the second run keeps its runtime state in twin.                  *)
(***************************************************************************)
TwinHandleEvent == \E ev \in UserEvents :
    /\ HandleEventCore(ev, MaxFrames)
    /\ call' = CallAfterEvent(ev, call)
    /\ twin' = [twin EXCEPT
                  !.screen_traces = TracesAfterEvent(ev, @),
                  !.electron = ElectronAfterEvent(ev, @)]

TwinEndEvents == EndEventsCore(MaxFrames) /\ UNCHANGED <<call, twin>>

TwinPhysicsBegin ==
    /\ PhysicsBeginCore
    /\ twin' = IF simulation_speed = 0 THEN twin
               ELSE [twin EXCEPT
                       !.time = TimeAtPhysics(variant, @, twin.clock_time,
                                              simulation_speed),
                       !.volts = get_voltages(
                                     variant, mode, sliders,
                                     TimeAtPhysics(variant, twin.time,
                                                   twin.clock_time,
                                                   simulation_speed))]
    /\ UNCHANGED call

TwinSubStepUpdate ==
    /\ SubStepUpdateCore
    /\ call' = CallOfSubStep
    /\ twin' = [twin EXCEPT
                  !.electron = ElectronUpdate(variant, @, DT,
                                              sliders.acceleration_voltage,
                                              twin.volts[1], twin.volts[2])]

TwinSubStepCheck ==
    /\ SubStepCheckCore
    /\ call' = CallAfterHitCheck(electron, call)
    /\ twin' = [twin EXCEPT
                  !.screen_traces =
                      TracesAfterHitCheck(twin.electron, @, twin.time,
                                          sliders.acceleration_voltage),
                  !.electron = ElectronAfterHitCheck(@)]

TwinTick == \E ms \in ClockTimes, ms2 \in ClockTimes :
    /\ TickCore(ms)
    /\ twin' = [twin EXCEPT
                  !.clock_time = ms2,
                  !.time = TimeAtTick(@, simulation_speed)]
    /\ UNCHANGED call

NextTwin ==
    \/ TwinHandleEvent
    \/ TwinEndEvents
    \/ TwinPhysicsBegin
    \/ TwinSubStepUpdate
    \/ TwinSubStepCheck
    \/ TwinTick

SpecTwin == Init /\ [][NextTwin]_vars

(***************************************************************************)
(* The Electron class on its own: a caller that follows update_physics     *)
(* (update until the screen is hit, then reset; reset at any time) but     *)
(* passes any arguments.                                                   *)
(***************************************************************************)
InitElectron == Construction /\ pc = "electron"

CallUpdate == \E Va \in CallAccelValues, Vv \in CallPlateValues, Vh \in CallPlateValues :
    /\ pc = "electron"
    /\ ~has_hit_screen(electron)
    /\ Len(electron.path) < MaxCalls
    /\ electron' = ElectronUpdate(variant, electron, DT, Va, Vv, Vh)
    /\ call' = UpdateCall(Va, Vv, Vh)
    /\ UNCHANGED <<S, C, variant, pc, i, frames, events, time, clock_time,
                   simulation_speed, screen_traces, sliders, volts, twin>>
    /\ UNCHANGED panel

CallReset ==
    /\ pc = "electron"
    /\ Len(electron.path) > 0
    /\ electron' = reset(electron)
    /\ call' = ResetCall
    /\ UNCHANGED <<S, C, variant, pc, i, frames, events, time, clock_time,
                   simulation_speed, screen_traces, sliders, volts, twin>>
    /\ UNCHANGED panel

NextElectron ==
    \/ CallUpdate
    \/ CallReset

SpecElectron == InitElectron /\ [][NextElectron]_vars

(***************************************************************************)
(* A long run, one step per call of update_physics: the user drags the     *)
(* acceleration slider to its maximum before the first frame and then      *)
(* leaves the program alone; every tick measures 16 ms.                    *)
(***************************************************************************)
\* One pass of the loop body of update_physics on st = the electron and
\* the trace buffer, at simulated time t.
OneSubStep(v, st, t, acceleration_voltage, plates) ==
    LET updated == ElectronUpdate(v, st.electron, DT, acceleration_voltage,
                                  plates[1], plates[2])
    IN  [electron |-> ElectronAfterHitCheck(updated),
         screen_traces |-> TracesAfterHitCheck(updated, st.screen_traces, t,
                                               acceleration_voltage)]

\* n passes of the loop body: the first half of them, and then the rest
\* from the state the first half ends in.  (The test on half is always
\* true: it makes TLC compute half before it goes on, which keeps the
\* evaluation shallow.)
RECURSIVE SubSteps(_, _, _, _, _, _)
SubSteps(v, n, st, t, acceleration_voltage, plates) ==
    IF n = 0 THEN st
    ELSE IF n = 1 THEN OneSubStep(v, st, t, acceleration_voltage, plates)
    ELSE LET half == SubSteps(v, n \div 2, st, t, acceleration_voltage,
                              plates)
         IN  IF Len(half.screen_traces) >= 0
             THEN SubSteps(v, n - (n \div 2), half, t, acceleration_voltage,
                           plates)
             ELSE half

\* update_physics, whole.
UpdatePhysics ==
    /\ pc = "update_physics"
    /\ pc' = "tick"
    /\ IF simulation_speed = 0
       THEN UNCHANGED <<time, volts, i, electron, screen_traces, call>>
       ELSE LET t == TimeAtPhysics(variant, time, clock_time,
                                   simulation_speed)
                plates == get_voltages(variant, mode, sliders, t)
                after == SubSteps(variant, SUBSTEPS,
                                  [electron |-> electron,
                                   screen_traces |-> screen_traces],
                                  t, sliders.acceleration_voltage, plates)
            IN  /\ time' = t
                /\ volts' = plates
                /\ i' = SUBSTEPS
                /\ electron' = after.electron
                /\ screen_traces' = after.screen_traces
                /\ call' = IF after.electron.path = << >> THEN ResetCall
                           ELSE UpdateCall(sliders.acceleration_voltage,
                                           plates[1], plates[2])
    /\ UNCHANGED <<S, C, variant, frames, events, clock_time, simulation_speed,
                   sliders, twin>>
    /\ UNCHANGED panel

FillSetBeam ==
    /\ frames = 0
    /\ sliders.acceleration_voltage # ACCEL_MAX
    /\ HandleEventCore([type |-> "slider", name |-> "acceleration_voltage",
                        val |-> ACCEL_MAX], MaxFillFrames)
    /\ UNCHANGED <<call, twin>>

FillEndEvents ==
    /\ sliders.acceleration_voltage = ACCEL_MAX
    /\ EndEventsCore(MaxFillFrames)
    /\ UNCHANGED <<call, twin>>

FillTick == TickCore(FRAME_MS) /\ UNCHANGED <<call, twin>>

NextFill ==
    \/ FillSetBeam
    \/ FillEndEvents
    \/ UpdatePhysics
    \/ FillTick

SpecFill == Init /\ [][NextFill]_vars

(***************************************************************************)
(* The program with a full trace buffer: the state the long run is in      *)
(* after FillFrames frames (FillReachesFullBuffer), from where the user    *)
(* pauses, resumes and clears while the frames go on, one step per         *)
(* sub-step.                                                               *)
(***************************************************************************)
\* At the maximum acceleration voltage a transit takes TransitSteps
\* sub-steps, so a frame records SUBSTEPS / TransitSteps events.
TransitSteps ==
    1 + ((screen_distance - Z_START - 1) \div AxialVelocity(ACCEL_MAX))

HitsPerFrame == SUBSTEPS \div TransitSteps

FillFrames == TRACES_MAXLEN \div HitsPerFrame

\* Simulated ms per frame: Simul.py adds the clock's 16 ms and the run
\* loop's 16 ms (the clock has measured nothing before the first frame).
MsPerFrame(v) == IF v = "Simul" THEN FRAME_MS + FRAME_MS ELSE FRAME_MS

FullBuffer(v) ==
    [k \in 1..TRACES_MAXLEN |->
       [x |-> 0, y |-> 0, time |-> ((k - 1) \div HitsPerFrame) * MsPerFrame(v),
        brightness |-> 1000]]

\* What the draw of that last frame painted: the draw before it saw the
\* buffer one frame short of full.
FullDrawn(v) ==
    LET t == FillFrames * MsPerFrame(v) - MsPerFrame(v)
        sl == [SliderInitial EXCEPT !.acceleration_voltage = ACCEL_MAX]
        before == draw(v, "manual", sl,
                       SubSeq(FullBuffer(v), 1, TRACES_MAXLEN - HitsPerFrame),
                       t - MsPerFrame(v), NothingDrawn)
    IN  draw(v, "manual", sl, FullBuffer(v), t, before)

\* The program state at the head of the run loop after FillFrames frames
\* of the long run.
IsFullState ==
    /\ pc = "handle_events"
    /\ i = SUBSTEPS
    /\ time = FillFrames * MsPerFrame(variant) - (MsPerFrame(variant) - FRAME_MS)
    /\ clock_time = FRAME_MS
    /\ simulation_speed = 1
    /\ electron = ElectronReset
    /\ screen_traces = FullBuffer(variant)
    /\ sliders = [SliderInitial EXCEPT !.acceleration_voltage = ACCEL_MAX]
    /\ volts = <<0, 0>>
    /\ call = ResetCall
    /\ mode = "manual"
    /\ show_presets = FALSE
    /\ preset_buttons = FALSE
    /\ event = NoEvent
    /\ drawn = FullDrawn(variant)
    /\ S = Runtime
    /\ C = Controls

\* The long run is in that state after FillFrames frames.
FillReachesFullBuffer ==
    (frames = FillFrames /\ pc = "handle_events") => IsFullState

InitFull ==
    /\ variant \in Variants
    /\ IsFullState
    /\ frames = 0
    /\ events = 0
    /\ twin = TwinInit

FullEvents == {[type |-> "pause"], [type |-> "clear"]}

FullHandleEvent == \E ev \in FullEvents :
    /\ HandleEventCore(ev, MaxFrames)
    /\ call' = CallAfterEvent(ev, call)
    /\ UNCHANGED twin

NextFull ==
    \/ FullHandleEvent
    \/ EndEvents
    \/ PhysicsBegin
    \/ SubStepUpdate
    \/ SubStepCheck
    \/ Tick

SpecFull == InitFull /\ [][NextFull]_vars

(***************************************************************************)
(* get_voltages on its own: the sliders are dragged, the mode buttons      *)
(* clicked and the simulated time advances; volts is what get_voltages     *)
(* returns in the state reached.                                           *)
(***************************************************************************)
InitVoltages == Construction /\ pc = "get_voltages"

VoltageDrags ==
    {[type |-> "slider", name |-> "vertical_voltage",
      val |-> -PLATE_VOLTAGE_MAX],
     [type |-> "slider", name |-> "horizontal_voltage",
      val |-> PLATE_VOLTAGE_MAX],
     [type |-> "slider", name |-> "vert_phase", val |-> 36],
     [type |-> "slider", name |-> "vert_phase", val |-> 0],
     [type |-> "slider", name |-> "horiz_phase", val |-> 72],
     [type |-> "slider", name |-> "horiz_frequency", val |-> FREQUENCY_MAX],
     [type |-> "slider", name |-> "horiz_amplitude", val |-> AMPLITUDE_MAX]}

\* Simulated ms between two queries.
QuerySteps == {7 * FRAME_MS}

\* 1/f in ms, for the frequencies whose period is a whole number of ms.
HasPeriod(f) == (FREQ * 1000) % f = 0

Period(f) == (FREQ * 1000) \div f

QueryCore ==
    /\ pc = "get_voltages"
    /\ volts' = get_voltages(variant, mode', sliders', time')
    /\ UNCHANGED <<S, C, variant, pc, i, frames, events, clock_time,
                   simulation_speed, electron, screen_traces, call, twin,
                   show_presets, preset_buttons, drawn>>

QueryAfterDrag == \E ev \in VoltageDrags :
    /\ sliders[ev.name] # ev.val
    /\ sliders' = SlidersAfterEvent(ev, sliders)
    /\ event' = ev
    /\ UNCHANGED <<mode, time>>
    /\ QueryCore

QueryAfterMode == \E m \in {"manual", "lissajous"} :
    /\ mode # m
    /\ mode' = ModeAfterEvent([type |-> "mode", name |-> m], mode)
    /\ event' = [type |-> "mode", name |-> m]
    /\ UNCHANGED <<sliders, time>>
    /\ QueryCore

QueryLater == \E ms \in QuerySteps :
    /\ time + ms <= MaxQueryTime
    /\ time' = time + ms
    /\ event' = [type |-> "later", ms |-> ms]
    /\ UNCHANGED <<sliders, mode>>
    /\ QueryCore

QueryOnePeriodLater == \E axis \in {"vert", "horiz"} :
    LET f == IF axis = "vert" THEN sliders.vert_frequency
             ELSE sliders.horiz_frequency
    IN  /\ HasPeriod(f)
        /\ time + Period(f) <= MaxQueryTime
        /\ time' = time + Period(f)
        /\ event' = [type |-> "period", axis |-> axis]
        /\ UNCHANGED <<sliders, mode>>
        /\ QueryCore

NextVoltages ==
    \/ QueryAfterDrag
    \/ QueryAfterMode
    \/ QueryLater
    \/ QueryOnePeriodLater

SpecVoltages == InitVoltages /\ [][NextVoltages]_vars

(***************************************************************************)
(* The control panel: the user clicks the mode buttons, opens the preset   *)
(* table, clicks presets, drags the phase and frequency sliders and        *)
(* presses R while the frames go on, one step per call of update_physics;  *)
(* every tick measures 16 ms.                                              *)
(***************************************************************************)
PanelEvents ==
    {[type |-> "mode", name |-> "lissajous"], [type |-> "preset_menu"],
     [type |-> "reset"]}
      \cup {[type |-> "preset", row |-> "1:1", col |-> 1],
            [type |-> "preset", row |-> "2:3", col |-> 1]}
      \cup {[type |-> "slider", name |-> "vert_phase", val |-> 36],
            [type |-> "slider", name |-> "horiz_frequency",
             val |-> FREQUENCY_MAX]}

PanelHandleEvent == \E ev \in PanelEvents :
    /\ HandleEventBounded(ev, MaxPanelEvents, MaxFrames)
    /\ call' = CallAfterEvent(ev, call)
    /\ UNCHANGED twin

NextPanel ==
    \/ PanelHandleEvent
    \/ EndEvents
    \/ UpdatePhysics
    \/ FillTick

SpecPanel == Init /\ [][NextPanel]_vars

(***************************************************************************)
(* An Electron object that has made a transit is reset and then receives   *)
(* the calls of update that a second, freshly constructed Electron         *)
(* (twin.electron) receives: i counts the calls of the earlier transit.    *)
(***************************************************************************)
InitReplay == Construction /\ pc = "transit"

ReplayAccelValues == {ACCEL_MIN, ACCEL_MAX}
ReplayPlateValues == {<<-PLATE_VOLTAGE_MAX, PlateGraze>>, <<PlateGraze, 0>>}

TransitUpdate == \E Va \in ReplayAccelValues, plates \in ReplayPlateValues :
    /\ pc = "transit"
    /\ i < MaxTransitCalls
    /\ ~has_hit_screen(electron)
    /\ electron' = ElectronUpdate(variant, electron, DT, Va, plates[1],
                                  plates[2])
    /\ call' = UpdateCall(Va, plates[1], plates[2])
    /\ i' = i + 1
    /\ UNCHANGED <<S, C, variant, pc, frames, events, time, clock_time,
                   simulation_speed, screen_traces, sliders, volts, twin>>
    /\ UNCHANGED panel

ReplayReset ==
    /\ pc = "transit"
    /\ i > 0
    /\ electron' = reset(electron)
    /\ call' = ResetCall
    /\ pc' = "replay"
    /\ UNCHANGED <<S, C, variant, i, frames, events, time, clock_time,
                   simulation_speed, screen_traces, sliders, volts, twin>>
    /\ UNCHANGED panel

ReplayUpdate == \E Va \in ReplayAccelValues, plates \in ReplayPlateValues :
    /\ pc = "replay"
    /\ Len(twin.electron.path) < MaxReplayCalls
    /\ ~has_hit_screen(twin.electron)
    /\ electron' = ElectronUpdate(variant, electron, DT, Va, plates[1],
                                  plates[2])
    /\ twin' = [twin EXCEPT
                  !.electron = ElectronUpdate(variant, @, DT, Va, plates[1],
                                              plates[2])]
    /\ call' = UpdateCall(Va, plates[1], plates[2])
    /\ UNCHANGED <<S, C, variant, pc, i, frames, events, time, clock_time,
                   simulation_speed, screen_traces, sliders, volts>>
    /\ UNCHANGED panel

NextReplay ==
    \/ TransitUpdate
    \/ ReplayReset
    \/ ReplayUpdate

SpecReplay == InitReplay /\ [][NextReplay]_vars

(***************************************************************************)
(* The display over several frames: the user drags the persistence slider  *)
(* to either end and clears the screen while the frames go on, one step    *)
(* per call of update_physics; every tick measures 16 ms.                  *)
(***************************************************************************)
DrawEvents ==
    {[type |-> "clear"],
     [type |-> "slider", name |-> "persistence", val |-> PERSISTENCE_MIN],
     [type |-> "slider", name |-> "persistence", val |-> PERSISTENCE_MAX]}

DrawHandleEvent == \E ev \in DrawEvents :
    /\ HandleEventBounded(ev, MaxDrawEvents, MaxDrawFrames)
    /\ call' = CallAfterEvent(ev, call)
    /\ UNCHANGED twin

DrawEndEvents == EndEventsCore(MaxDrawFrames) /\ UNCHANGED <<call, twin>>

NextDraw ==
    \/ DrawHandleEvent
    \/ DrawEndEvents
    \/ UpdatePhysics
    \/ FillTick

SpecDraw == Init /\ [][NextDraw]_vars

(***************************************************************************)
(* The preset table: the user switches to lissajous mode, opens the table  *)
(* and clicks any of its twenty buttons, or drags the vertical phase,      *)
(* while the frames go on; every tick measures 16 ms.                      *)
(***************************************************************************)
PresetRows == {"1:1", "1:2", "1:3", "2:3"}

PresetEvents ==
    {[type |-> "mode", name |-> "lissajous"], [type |-> "preset_menu"],
     [type |-> "slider", name |-> "vert_phase", val |-> 36]}
      \cup {[type |-> "preset", row |-> r, col |-> c] :
              r \in PresetRows, c \in 1..5}

PresetHandleEvent == \E ev \in PresetEvents :
    /\ HandleEventBounded(ev, MaxPresetEvents, MaxFrames)
    /\ call' = CallAfterEvent(ev, call)
    /\ UNCHANGED twin

NextPresets ==
    \/ PresetHandleEvent
    \/ EndEvents
    \/ UpdatePhysics
    \/ FillTick

SpecPresets == Init /\ [][NextPresets]_vars

(***************************************************************************)
(* The trace buffer over several frames: the user pauses and resumes,      *)
(* clears the screen, presses R, switches between the modes, opens the     *)
(* preset table and clicks a preset while the frames go on, one step per   *)
(* call of update_physics; every tick measures 16 ms.                      *)
(***************************************************************************)
TraceEvents ==
    {[type |-> "pause"], [type |-> "clear"], [type |-> "reset"],
     [type |-> "mode", name |-> "lissajous"],
     [type |-> "mode", name |-> "manual"], [type |-> "preset_menu"],
     [type |-> "preset", row |-> "1:2", col |-> 3]}

TraceHandleEvent == \E ev \in TraceEvents :
    /\ HandleEventBounded(ev, MaxTraceEvents, MaxTraceFrames)
    /\ call' = CallAfterEvent(ev, call)
    /\ UNCHANGED twin

TraceEndEvents == EndEventsCore(MaxTraceFrames) /\ UNCHANGED <<call, twin>>

NextTraces ==
    \/ TraceHandleEvent
    \/ TraceEndEvents
    \/ UpdatePhysics
    \/ FillTick

SpecTraces == Init /\ [][NextTraces]_vars

(***************************************************************************)
(* update_physics one sub-step at a time with the waveforms running: the   *)
(* user switches to lissajous mode, drags the vertical phase and pauses    *)
(* while the frames go on; every tick measures 16 ms.                      *)
(***************************************************************************)
StepEvents ==
    {[type |-> "mode", name |-> "lissajous"], [type |-> "pause"],
     [type |-> "slider", name |-> "vert_phase", val |-> 36]}

StepHandleEvent == \E ev \in StepEvents :
    /\ HandleEventBounded(ev, MaxStepEvents, MaxStepFrames)
    /\ call' = CallAfterEvent(ev, call)
    /\ UNCHANGED twin

StepEndEvents == EndEventsCore(MaxStepFrames) /\ UNCHANGED <<call, twin>>

NextSteps ==
    \/ StepHandleEvent
    \/ StepEndEvents
    \/ PhysicsBegin
    \/ SubStepUpdate
    \/ SubStepCheck
    \/ FillTick

SpecSteps == Init /\ [][NextSteps]_vars

(***************************************************************************)
(* The Electron classes of the two programs side by side: electron is an   *)
(* Electron of the program variant names, twin.electron one of the other   *)
(* program, and both receive the same calls of update, and of reset after  *)
(* a hit.                                                                  *)
(***************************************************************************)
OtherProgram(v) == IF v = "Simul" THEN "prueba" ELSE "Simul"

InitMirror == Construction /\ pc = "mirror"

MirrorAccelValues == {0, ACCEL_MIN, ACCEL_INITIAL, ACCEL_MAX}
MirrorPlateValues ==
    {<<0, 0>>, <<PLATE_VOLTAGE_MAX, -PLATE_VOLTAGE_MAX>>,
     <<SliderValue("vertical_voltage", 100), PLATE_VOLTAGE_MAX>>}

MirrorUpdate == \E Va \in MirrorAccelValues, plates \in MirrorPlateValues :
    /\ pc = "mirror"
    /\ Len(electron.path) < MaxCalls
    /\ ~has_hit_screen(electron)
    /\ electron' = ElectronUpdate(variant, electron, DT, Va, plates[1],
                                  plates[2])
    /\ twin' = [twin EXCEPT
                  !.electron = ElectronUpdate(OtherProgram(variant), @, DT,
                                              Va, plates[1], plates[2])]
    /\ call' = UpdateCall(Va, plates[1], plates[2])
    /\ UNCHANGED <<S, C, variant, pc, i, frames, events, time, clock_time,
                   simulation_speed, screen_traces, sliders, volts>>
    /\ UNCHANGED panel

MirrorReset ==
    /\ pc = "mirror"
    /\ has_hit_screen(electron)
    /\ electron' = reset(electron)
    /\ twin' = [twin EXCEPT !.electron = reset(@)]
    /\ call' = ResetCall
    /\ UNCHANGED <<S, C, variant, pc, i, frames, events, time, clock_time,
                   simulation_speed, screen_traces, sliders, volts>>
    /\ UNCHANGED panel

NextMirror ==
    \/ MirrorUpdate
    \/ MirrorReset

SpecMirror == InitMirror /\ [][NextMirror]_vars

(***************************************************************************)
(* The beam at every acceleration voltage: the loop of update_physics on   *)
(* the Electron with the arguments held for a whole transit.  The          *)
(* acceleration voltage is that of any pixel of its slider; update is      *)
(* called until the electron has hit the screen, then reset.               *)
(***************************************************************************)
BeamAccelValues ==
    {SliderValue("acceleration_voltage", rel_x) : rel_x \in 0..SLIDER_WIDTH}

BeamPlateValues ==
    {<<0, 0>>, <<-PLATE_VOLTAGE_MAX, PLATE_VOLTAGE_MAX>>,
     <<SliderValue("vertical_voltage", 150), 0>>}

InitBeam == Construction /\ pc = "gun"

\* The first update call of a transit.
BeamFire == \E Va \in BeamAccelValues, plates \in BeamPlateValues :
    /\ pc = "gun"
    /\ electron' = ElectronUpdate(variant, electron, DT, Va, plates[1],
                                  plates[2])
    /\ call' = UpdateCall(Va, plates[1], plates[2])
    /\ pc' = "flight"
    /\ UNCHANGED <<S, C, variant, i, frames, events, time, clock_time,
                   simulation_speed, screen_traces, sliders, volts, twin>>
    /\ UNCHANGED panel

\* The next update call, with the same arguments.
BeamFly ==
    /\ pc = "flight"
    /\ ~has_hit_screen(electron)
    /\ electron' = ElectronUpdate(variant, electron, DT,
                                  call.acceleration_voltage,
                                  call.vertical_voltage,
                                  call.horizontal_voltage)
    /\ UNCHANGED <<S, C, variant, pc, i, frames, events, time, clock_time,
                   simulation_speed, screen_traces, sliders, volts, twin,
                   call>>
    /\ UNCHANGED panel

\* if self.electron.has_hit_screen(): ... self.electron.reset()
BeamLand ==
    /\ pc = "flight"
    /\ has_hit_screen(electron)
    /\ electron' = ElectronAfterHitCheck(electron)
    /\ call' = ResetCall
    /\ pc' = "gun"
    /\ UNCHANGED <<S, C, variant, i, frames, events, time, clock_time,
                   simulation_speed, screen_traces, sliders, volts, twin>>
    /\ UNCHANGED panel

NextBeam ==
    \/ BeamFire
    \/ BeamFly
    \/ BeamLand

SpecBeam == InitBeam /\ [][NextBeam]_vars

\* While the simulation is not paused the loop goes on: every frame makes
\* its 100 passes.
SpecBeamRunning == SpecBeam /\ WF_vars(BeamFly) /\ WF_vars(BeamLand)

(***************************************************************************)
(* simulacionChatGPT.py: FuncAnimation calls update_frame, and between     *)
(* the frames the user clicks the three buttons and moves the sliders.     *)
(***************************************************************************)
\* What the module's own code has built when the animation starts.
ChatBuilt ==
    /\ variant = "simulacionChatGPT"
    /\ pc = "update_frame"
    /\ C = Controls
    /\ sliders = ChatSliders
    /\ frames = 0
    /\ events = 0
    /\ event = NoEvent
    /\ i = 0
    /\ time = 0
    /\ clock_time = 0
    /\ simulation_speed = 1
    /\ electron = ElectronReset
    /\ screen_traces = << >>
    /\ volts = <<0, 0>>
    /\ call = ResetCall
    /\ twin = TwinInit
    /\ mode = "manual"
    /\ show_presets = FALSE
    /\ preset_buttons = FALSE
    /\ drawn = NothingDrawn

ChatConstruction == ChatBuilt /\ S = Runtime

\* The state of the pygame programs, which this program does not have.
ChatLeavesAlone ==
    UNCHANGED <<variant, pc, i, time, clock_time, simulation_speed, electron,
                screen_traces, volts, call, twin, mode, show_presets,
                preset_buttons, drawn>>

\* dt = (DT_LISS if S.mode_lissajous else DT) * TIME_SCALE
FrameStep(mode_lissajous) ==
    ((IF mode_lissajous THEN DT_LISS ELSE CHAT_DT) * TIME_SCALE_PERCENT)
      \div 100

\* Mutant: the frame stamps the trail entry with the time before the step.
RuntimeAfterFrameStampedBefore(s, c) ==
    IF s.paused THEN s
    ELSE LET t == s.t + FrameStep(s.mode_lissajous)
             xy == compute_xy(c, s.mode_lissajous, t)
         IN  [s EXCEPT !.t = t, !.x = xy[1], !.y = xy[2],
                       !.trail = DequeAppend(@, <<s.t, xy[1], xy[2]>>,
                                             TRAIL_MAXLEN)]

\* The head of update_frame: time, position and trail.
RuntimeAfterFrame(s, c) ==
    IF s.paused THEN s
    ELSE LET t == s.t + FrameStep(s.mode_lissajous)
             xy == compute_xy(c, s.mode_lissajous, t)
         IN  [s EXCEPT !.t = t, !.x = xy[1], !.y = xy[2],
                       !.trail = DequeAppend(@, <<t, xy[1], xy[2]>>,
                                             TRAIL_MAXLEN)]

update_frame_bounded(maxFrames) ==
    /\ frames < maxFrames
    /\ frames' = frames + 1
    /\ S' = RuntimeAfterFrame(S, C)
    /\ event' = [type |-> "update_frame"]
    /\ UNCHANGED <<C, sliders, events>>
    /\ ChatLeavesAlone

on_mode_bounded(maxEvents) ==
    /\ events < maxEvents
    /\ events' = events + 1
    /\ S' = [S EXCEPT !.mode_lissajous = ~@, !.trail = << >>]
    /\ event' = [type |-> "on_mode"]
    /\ UNCHANGED <<C, sliders, frames>>
    /\ ChatLeavesAlone

on_pause_bounded(maxEvents) ==
    /\ events < maxEvents
    /\ events' = events + 1
    /\ S' = [S EXCEPT !.paused = ~@]
    /\ event' = [type |-> "on_pause"]
    /\ UNCHANGED <<C, sliders, frames>>
    /\ ChatLeavesAlone

on_reset_bounded(maxEvents) ==
    /\ events < maxEvents
    /\ events' = events + 1
    /\ S' = [S EXCEPT !.t = 0, !.trail = << >>]
    /\ event' = [type |-> "on_reset"]
    /\ UNCHANGED <<C, sliders, frames>>
    /\ ChatLeavesAlone

\* The value a slider shows after a drag to its step k: valmin + k * valstep
\* (Va from 0.2 in steps of 0.01, Vx and Vy from -Vlim in steps of 0.05,
\* fX and fY from 0.1 Hz in steps of 0.05 Hz); the phase sliders have no
\* step.
ChatSliderValue(name, k, sl) ==
    CASE name = "Va" -> FloatOf(20 + k, 100)
      [] name \in {"Vx", "Vy"} ->
             FloatRound(-Vlim(sl.Va) * 100 + k * 5 * Quantum, 100)
      [] name \in {"fx", "fy"} -> 10 + 5 * k
      [] OTHER -> k

\* The drags of the model: Va to either end, Vx and Vy to 26 steps above
\* their lower limit, fX to 1 Hz, the phase of Y to zero.
ChatDrags ==
    {<<"Va", 0>>, <<"Va", 180>>, <<"Vx", 26>>, <<"Vy", 26>>, <<"fx", 18>>,
     <<"phy", 0>>}

\* on_slider after a slider has moved: C takes the values of all sliders,
\* _actualizar_rangos_voltajes sets the limits of s_Vx and s_Vy from C.Va
\* and cuts their values to them (each set_val calls on_slider again).
SlidersAfterDrag(name, val, sl) ==
    LET moved == [sl EXCEPT ![name] = val]
        lim == Vlim(moved.Va)
    IN  [moved EXCEPT !.Vx = Clip(@, -lim, lim), !.Vy = Clip(@, -lim, lim)]

on_slider_bounded(maxEvents) == \E drag \in ChatDrags :
    LET val == ChatSliderValue(drag[1], drag[2], sliders)
    IN  /\ events < maxEvents
        /\ sliders[drag[1]] # val
        /\ events' = events + 1
        /\ sliders' = SlidersAfterDrag(drag[1], val, sliders)
        /\ C' = sliders'
        /\ event' = [type |-> "on_slider", name |-> drag[1]]
        /\ UNCHANGED <<S, frames>>
        /\ ChatLeavesAlone

InitChat == ChatConstruction

update_frame == update_frame_bounded(MaxChatFrames)
on_mode == on_mode_bounded(MaxChatEvents)
on_pause == on_pause_bounded(MaxChatEvents)
on_reset == on_reset_bounded(MaxChatEvents)
on_slider == on_slider_bounded(MaxChatEvents)

NextChat ==
    \/ update_frame
    \/ on_mode
    \/ on_pause
    \/ on_reset
    \/ on_slider

SpecChat == InitChat /\ [][NextChat]_vars

(***************************************************************************)
(* simulacionChatGPT.py with a full trail: the state the program is in     *)
(* after TRAIL_MAXLEN frames with no click (ChatFillReachesFullTrail),     *)
(* from where the user clicks the three buttons while the frames go on.    *)
(***************************************************************************)
\* The trail after TRAIL_MAXLEN unpaused Lissajous frames on the default
\* controls: one entry per frame.
FullTrail ==
    [k \in 1..TRAIL_MAXLEN |->
        LET t == k * FrameStep(TRUE)
            xy == compute_xy(Controls, TRUE, t)
        IN  <<t, xy[1], xy[2]>>]

FullRuntime ==
    [Runtime EXCEPT !.t = TRAIL_MAXLEN * FrameStep(TRUE),
                    !.x = FullTrail[TRAIL_MAXLEN][2],
                    !.y = FullTrail[TRAIL_MAXLEN][3],
                    !.trail = FullTrail]

ChatFillFrame == update_frame_bounded(TRAIL_MAXLEN)

SpecChatFill == InitChat /\ [][ChatFillFrame]_vars

\* The run without clicks is in that state after TRAIL_MAXLEN frames.
ChatFillReachesFullTrail == frames = TRAIL_MAXLEN => S = FullRuntime

InitTrail == ChatBuilt /\ S = FullRuntime

TrailFrame == update_frame_bounded(MaxTrailFrames)
TrailMode == on_mode_bounded(MaxTrailEvents)
TrailPause == on_pause_bounded(MaxTrailEvents)
TrailReset == on_reset_bounded(MaxTrailEvents)

NextTrail ==
    \/ TrailFrame
    \/ TrailMode
    \/ TrailPause
    \/ TrailReset

SpecTrail == InitTrail /\ [][NextTrail]_vars

(***************************************************************************)
(* Properties.                                                             *)
(***************************************************************************)
\* A step that is one Electron.update call: a sub-step of update_physics,
\* or a call of the class on its own.
UpdateStep == pc \in {"update", "electron"} /\ call'.op = "update"

MIDDLE == SCREEN_SIZE \div 2
HALF_GAP == PLATE_SEPARATION \div 2
LastTrace == screen_traces[Len(screen_traces)]

\* C1: two runs of the same program with the same slider values, the same
\* user events and the same frames have, at every step, the same simulated
\* time, the same electron state (trajectory included) and the same
\* screen_traces (positions and timestamps).
C1_SameRunsAgree ==
    /\ time = twin.time
    /\ electron = twin.electron
    /\ screen_traces = twin.screen_traces

\* vz is sqrt(2*q*|Va|/m) per dt, to the resolution of 2000 nm per dt:
\* (vz/2000)^2 <= 2*PLATE_SEPARATION*|Va| / 2000^2 < (vz/2000 + 1)^2.
IsAxialVelocityFor(vz, Va) ==
    LET r == vz \div 2000
        energy == ((2 * PLATE_SEPARATION) \div (2000 * 2000)) * Abs(Va)
    IN  /\ vz = 2000 * r
        /\ r * r <= energy
        /\ energy < (r + 1) * (r + 1)

\* C2: an update call assigns vz only when the one-time acceleration has
\* not been done in this transit and its acceleration voltage is not 0,
\* and then to sqrt(2*q*|Va|/m) for its own Va; every other update call
\* leaves vz and the flag as they are, whatever Va it is passed.  Only a
\* reset clears the flag.
C2_AxialVelocitySetOnce ==
    [][ /\ UpdateStep =>
             IF ~electron.initial_acceleration_done
                  /\ call'.acceleration_voltage # 0
             THEN /\ electron'.initial_acceleration_done
                  /\ IsAxialVelocityFor(electron'.vz,
                                        call'.acceleration_voltage)
                  /\ electron'.vz > 0
             ELSE /\ electron'.vz = electron.vz
                  /\ electron'.initial_acceleration_done
                       = electron.initial_acceleration_done
        /\ (electron.initial_acceleration_done
              /\ ~electron'.initial_acceleration_done) => call'.op = "reset"
      ]_vars

\* An update was passed a non-zero acceleration voltage other than the
\* one that set vz earlier in the transit, and vz is still the old one.
C2_Witness ==
    /\ pc = "electron"
    /\ call.op = "update"
    /\ call.acceleration_voltage # 0
    /\ Len(electron.path) >= 2
    /\ electron.initial_acceleration_done
    /\ electron.vz > 0
    /\ ~IsAxialVelocityFor(electron.vz, call.acceleration_voltage)

\* C3: the hit test that follows a sub-step with z >= the gun-to-screen
\* distance resets the electron to its initial transit state, in bounds or
\* not, and an out-of-bounds hit leaves no trace; outside the hit test the
\* electron is never at or past the screen plane.
C3_ResetAfterEveryHit ==
    [][ /\ (pc = "check" /\ electron.z >= screen_distance) =>
             /\ electron'.x = 0 /\ electron'.y = 0 /\ electron'.z = Z_START
             /\ electron'.vx = 0 /\ electron'.vy = 0 /\ electron'.vz = 0
             /\ electron'.path = << >>
             /\ ~electron'.initial_acceleration_done
        /\ pc' # "check" => electron'.z < screen_distance
      ]_vars

\* A sub-step has just left the electron past the screen plane and
\* outside the screen.
C3_Witness ==
    /\ pc = "check"
    /\ electron.z >= screen_distance
    /\ (Abs(electron.x) > MIDDLE \/ Abs(electron.y) > MIDDLE)

\* The trace buffer after one append of an event at (x, y).
IsAppendOf(after, before, x, y) ==
    /\ Len(after) = Min(Len(before) + 1, TRACES_MAXLEN)
    /\ after[Len(after)].x = x
    /\ after[Len(after)].y = y
    /\ \A k \in 1..(Len(after) - 1) :
          after[k] = before[k + (Len(before) + 1 - Len(after))]

\* C4: the hit test appends exactly one event, carrying the electron's
\* (x, y), when the electron is at or past the screen plane with
\* |x| <= SCREEN_SIZE/2 and |y| <= SCREEN_SIZE/2, and appends nothing in
\* every other case.
C4_TraceIffInBounds ==
    [][ pc = "check" =>
          IF /\ electron.z >= screen_distance
             /\ Abs(electron.x) <= MIDDLE
             /\ Abs(electron.y) <= MIDDLE
          THEN IsAppendOf(screen_traces', screen_traces,
                          electron.x, electron.y)
          ELSE screen_traces' = screen_traces
      ]_vars

\* An event exactly on the edge of the screen has been recorded.
C4_Witness ==
    /\ Len(screen_traces) > 0
    /\ Abs(LastTrace.y) = MIDDLE
    /\ Abs(LastTrace.x) <= MIDDLE

\* C5: screen_traces never holds more than 5000 events, and an append to
\* the full buffer removes the oldest event only and keeps the others in
\* order, behind them the new event.
C5_BoundedFifo ==
    [][ /\ Len(screen_traces') <= 5000
        /\ (Len(screen_traces) = 5000 /\ pc = "check"
              /\ electron.z >= screen_distance
              /\ Abs(electron.x) <= MIDDLE /\ Abs(electron.y) <= MIDDLE) =>
             /\ Len(screen_traces') = 5000
             /\ \A k \in 1..4999 : screen_traces'[k] = screen_traces[k + 1]
             /\ screen_traces'[5000].time = time
      ]_vars

\* The buffer is full, its newest event is of the current frame and its
\* oldest is no longer the one it was full with: events have been evicted.
C5_Witness ==
    /\ Len(screen_traces) = 5000
    /\ screen_traces[5000].time = time
    /\ screen_traces[5000].time > FullBuffer(variant)[5000].time
    /\ screen_traces[1] = FullBuffer(variant)[2]

\* C6: once the electron has its axial velocity, the distance vz*dt it
\* covers in one sub-step is smaller than PLATE_LENGTH.
C6_StepShorterThanPlate ==
    electron.initial_acceleration_done => electron.vz * DT < PLATE_LENGTH

Straight(e) == e.x = 0 /\ e.y = 0 /\ e.vx = 0 /\ e.vy = 0

\* C7: a sub-step with both plate voltages 0 keeps an electron that is on
\* the axis with no transverse velocity on the axis with no transverse
\* velocity, and the hit of such an electron is recorded at (0, 0); so a
\* transit (which starts on the axis at rest) whose sub-steps all have
\* plate voltages 0 is a straight line that ends in an event at (0, 0).
C7_StraightLine ==
    [][ /\ (UpdateStep /\ call'.vertical_voltage = 0
              /\ call'.horizontal_voltage = 0 /\ Straight(electron))
             => Straight(electron')
        /\ (pc = "check" /\ electron.z >= screen_distance
              /\ Straight(electron))
             => IsAppendOf(screen_traces', screen_traces, 0, 0)
        /\ call'.op = "reset" => Straight(electron')
      ]_vars

\* No slider was ever touched (the plate voltages have been 0 all along)
\* and a transit has ended in an event at (0, 0).
C7_Witness ==
    /\ events = 0
    /\ sliders.vertical_voltage = 0
    /\ sliders.horizontal_voltage = 0
    /\ Len(screen_traces) > 0
    /\ LastTrace.x = 0
    /\ LastTrace.y = 0

\* C8: an update call changes vy only if at its start z is in
\* [a, a+l] and |y| < PLATE_SEPARATION/2, and changes vx only if z is in
\* [a+l+g, a+l+g+l] and |x| < PLATE_SEPARATION/2.
C8_KickOnlyInsidePlates ==
    [][ UpdateStep =>
          /\ electron'.vy # electron.vy =>
               /\ DISTANCE_GUN_TO_PLATES <= electron.z
               /\ electron.z <= DISTANCE_GUN_TO_PLATES + PLATE_LENGTH
               /\ Abs(electron.y) < HALF_GAP
          /\ electron'.vx # electron.vx =>
               /\ DISTANCE_GUN_TO_PLATES + PLATE_LENGTH
                    + DISTANCE_BETWEEN_PLATES <= electron.z
               /\ electron.z <= DISTANCE_GUN_TO_PLATES + PLATE_LENGTH
                    + DISTANCE_BETWEEN_PLATES + PLATE_LENGTH
               /\ Abs(electron.x) < HALF_GAP
      ]_vars

\* The start of the update call that has just been made.
StartOfLastUpdate ==
    IF Len(electron.path) >= 2
    THEN electron.path[Len(electron.path) - 1]
    ELSE <<0, 0, Z_START>>

\* Updates have changed both transverse velocities.
C8_Witness ==
    /\ pc = "electron"
    /\ call.op = "update"
    /\ electron.vy # 0
    /\ electron.vx # 0

\* The electron has been at |y| >= PLATE_SEPARATION/2 (resp. |x|) at the
\* start of a sub-step of this transit, this one included: path holds the
\* positions the earlier sub-steps of the transit ended in.
LeftVerticalGap(e) ==
    \E k \in 1..Len(e.path) : Abs(e.path[k][2]) >= HALF_GAP

LeftHorizontalGap(e) ==
    \E k \in 1..Len(e.path) : Abs(e.path[k][1]) >= HALF_GAP

\* C9: once the electron has been at |y| >= PLATE_SEPARATION/2 at the
\* start of a sub-step, no later update of the transit changes vy, whatever
\* plate voltage it is passed; the same for |x| and vx.
C9_NoKickAfterLeavingGap ==
    [][ UpdateStep =>
          /\ LeftVerticalGap(electron) => electron'.vy = electron.vy
          /\ LeftHorizontalGap(electron) => electron'.vx = electron.vx
      ]_vars

\* An update that started between the vertical plates, outside their gap,
\* was passed a plate voltage other than the one that had kicked the
\* electron out of the gap.
C9_Witness ==
    /\ pc = "electron"
    /\ call.op = "update"
    /\ call.vertical_voltage # 0
    /\ Abs(call.vertical_voltage) # Abs(electron.vy)
    /\ Len(electron.path) >= 2
    /\ Abs(StartOfLastUpdate[2]) >= HALF_GAP
    /\ StartOfLastUpdate[3] >= DISTANCE_GUN_TO_PLATES
    /\ StartOfLastUpdate[3] <= DISTANCE_GUN_TO_PLATES + PLATE_LENGTH

\* C10: in one update call the new position is the old position plus the
\* NEW velocity times dt, on x, y and z.
C10_VelocityBeforePosition ==
    [][ UpdateStep =>
          /\ electron'.x = electron.x + electron'.vx * DT
          /\ electron'.y = electron.y + electron'.vy * DT
          /\ electron'.z = electron.z + electron'.vz * DT
      ]_vars

\* The update just made started on the axis and gave the electron its
\* first transverse velocity: it has moved by that velocity already.
C10_Witness ==
    /\ pc = "electron"
    /\ call.op = "update"
    /\ Len(electron.path) >= 2
    /\ StartOfLastUpdate[2] = 0
    /\ electron.vy # 0
    /\ electron.y = electron.vy * DT

\* C11: in lissajous mode get_voltages returns, for each axis, the
\* sinusoid of that axis's own amplitude, frequency and phase sliders:
\* (Av*sin(2*pi*fv*t + vert_phase), Ah*sin(2*pi*fh*t + horiz_phase)).
C11_OwnPhasePerAxis ==
    mode = "lissajous" =>
      /\ volts[1] = (sliders.vert_amplitude \div 1000)
                      * Sin(Turn(sliders.vert_frequency, time)
                              + sliders.vert_phase * 10)
      /\ volts[2] = (sliders.horiz_amplitude \div 1000)
                      * Sin(Turn(sliders.horiz_frequency, time)
                              + sliders.horiz_phase * 10)

\* C12: after the preset "1:1, delta = 0" (row "1:1", first column) has been
\* applied, from any slider state, the horizontal and the vertical frequency
\* are equal and the vertical phase minus the horizontal phase is zero.
C12_PresetOneToOne ==
    [][ ( /\ event' = [type |-> "preset", row |-> "1:1", col |-> 1]
          /\ PresetApplies(event', mode', show_presets, preset_buttons) )
        => /\ sliders'.horiz_frequency = sliders'.vert_frequency
           /\ sliders'.vert_phase - sliders'.horiz_phase = 0 ]_vars

\* C13: in manual mode get_voltages returns the values of the two plate
\* sliders (vertical, horizontal), and a query at a later time with the
\* same slider values returns the same pair.
C13_ManualTimeInvariant ==
    [][ mode' = "manual" =>
          /\ volts' = <<sliders'.vertical_voltage,
                        sliders'.horizontal_voltage>>
          /\ (mode = "manual" /\ sliders' = sliders) => volts' = volts
      ]_vars

\* A query in manual mode at a later time, with plate voltages that are
\* not 0.
C13_Witness ==
    /\ pc = "get_voltages"
    /\ mode = "manual"
    /\ event.type = "later"
    /\ time > 0
    /\ volts[1] # 0
    /\ volts[2] # 0

C15_ResetReplaysFresh == pc = "replay" => electron = twin.electron

\* The transit before the reset had at least two calls, and the replay is
\* three calls long and has been kicked by both plate pairs.
C15_Witness ==
    /\ pc = "replay"
    /\ i >= 2
    /\ Len(electron.path) >= 3
    /\ electron.vy # 0
    /\ electron.vx # 0
    /\ call.acceleration_voltage = ACCEL_MAX

\* C16: while the simulation is paused, the steps of a frame other than
\* the handling of a user event (the end of handle_events, update_physics,
\* draw and tick) make no call on the electron, enter no sub-step and leave
\* the electron, the trace buffer and the simulated time unchanged; the
\* draw of that frame still reads get_voltages and the trace buffer.
C16_PausedFrame ==
    [][ (simulation_speed = 0 /\ event' = NoEvent)
        => /\ electron' = electron
           /\ call' = call
           /\ screen_traces' = screen_traces
           /\ time' = time
           /\ pc' # "update"
           /\ pc = "tick" =>
                 drawn' = draw(variant, mode, sliders, screen_traces, time,
                               drawn) ]_vars

\* The second frame has ended: the pause came in the first frame (the
\* time has not moved), so the second frame had no user event; the buffer
\* is full and the draw has painted events of it.
C16_Witness ==
    /\ pc = "handle_events"
    /\ frames = 2
    /\ events = 1
    /\ simulation_speed = 0
    /\ time = FillFrames * MsPerFrame(variant)
                - (MsPerFrame(variant) - FRAME_MS)
    /\ Len(screen_traces) = TRACES_MAXLEN
    /\ Len(drawn.circles) > 0

\* The events the last pass of draw_screen_view painted.
Painted(d) == {d.circles[k].trace : k \in 1..Len(d.circles)}

\* C17: no step removes an event from screen_traces for its age.  The
\* draw, a drag of the persistence slider and every other step that is not
\* a clear (or a preset restart) keep the events of a buffer below its
\* capacity, in order, at the head of the buffer; the draw only skips the
\* events of age >= 2 * persistence, and paints every event of the view
\* that is younger, whether an earlier pass skipped it or not.
C17_NoDeletionForAge ==
    [][ /\ (event'.type \notin {"clear", "preset"}
              /\ Len(screen_traces') < TRACES_MAXLEN)
            => /\ Len(screen_traces') >= Len(screen_traces)
               /\ SubSeq(screen_traces', 1, Len(screen_traces))
                    = screen_traces
        /\ (pc = "tick" \/ event'.type = "slider")
            => screen_traces' = screen_traces
        /\ pc = "tick"
            => \A k \in 1..Len(screen_traces) :
                  LET tr == screen_traces[k]
                  IN  /\ (time - tr.time >= 2 * sliders.persistence)
                          => (tr \in drawn'.skipped
                                /\ tr \notin Painted(drawn'))
                      /\ (time - tr.time < 2 * sliders.persistence
                            /\ CollidePoint(tr))
                          => tr \in Painted(drawn') ]_vars

\* An event that the pass before skipped for its age is painted by the
\* last pass: the persistence was lowered and raised again.
C17_Witness ==
    /\ pc = "handle_events"
    /\ sliders.persistence = PERSISTENCE_MAX
    /\ \E tr \in drawn.skipped_before :
          /\ tr \in Painted(drawn)
          /\ \E k \in 1..Len(screen_traces) : screen_traces[k] = tr

\* C18: the intensity factor of every event the draw paints at time tNow
\* is brightness * max(0, 1 - age / (2 * persistence)), with
\* age = tNow - the event's time stamp (alpha and brightness in
\* thousandths).
C18_IntensityFactor ==
    [][ pc = "tick"
        => \A k \in 1..Len(drawn'.circles) :
              LET c == drawn'.circles[k]
                  age == time - c.trace.time
              IN  c.alpha * c.trace.brightness
                    = c.trace.brightness
                        * Max(0, 1000 - ((age * 1000)
                                           \div (2 * sliders.persistence)))
      ]_vars

\* C19: a call of update that starts inside the vertical plate region
\* with |y| < PLATE_SEPARATION/2 strictly decreases vy if the vertical
\* plate voltage is positive and strictly increases it if the voltage is
\* negative; likewise vx inside the horizontal plate region with
\* |x| < PLATE_SEPARATION/2 and the horizontal plate voltage.
C19_DeflectionSign ==
    [][ UpdateStep =>
          /\ InVerticalField(electron) =>
                /\ call'.vertical_voltage > 0 => electron'.vy < electron.vy
                /\ call'.vertical_voltage < 0 => electron'.vy > electron.vy
          /\ InHorizontalField(electron) =>
                /\ call'.horizontal_voltage > 0 => electron'.vx < electron.vx
                /\ call'.horizontal_voltage < 0 => electron'.vx > electron.vx
      ]_vars

\* C20: the reset action (key R) puts the electron in its initial transit
\* state, (x, y, z, vx, vy, vz) = (0, 0, 1 mm, 0, 0, 0) with an empty path
\* and the acceleration flag cleared, and leaves the trace buffer, the
\* simulated time, the mode and every slider value unchanged.
C20_ResetAction ==
    [][ event'.type = "reset" =>
          /\ electron' = [x |-> 0, y |-> 0, z |-> Z_START,
                          vx |-> 0, vy |-> 0, vz |-> 0, path |-> << >>,
                          initial_acceleration_done |-> FALSE]
          /\ screen_traces' = screen_traces
          /\ time' = time
          /\ mode' = mode
          /\ sliders' = sliders ]_vars

\* R has just been pressed in lissajous mode, in a frame after the first,
\* with events on the screen and sliders moved by a preset.
C20_Witness ==
    /\ event.type = "reset"
    /\ electron.path = << >>
    /\ call.op = "reset"
    /\ mode = "lissajous"
    /\ time > 0
    /\ Len(screen_traces) > 0
    /\ sliders # SliderInitial

\* C21: a frame of the run loop advances the simulated time by exactly
\* 16 ms when the simulation is not paused and by 0 when it is: the tick
\* at the end of the frame adds the 16 ms (or nothing), and no step of
\* update_physics moves the time.
C21_FrameAdvances16 ==
    [][ /\ pc \in {"update_physics", "update", "check"} => time' = time
        /\ pc = "tick" =>
              time' = time + (IF simulation_speed > 0 THEN FRAME_MS ELSE 0)
      ]_vars

\* The ratio horizontal : vertical that the name of a row of the table
\* states.
RowRatio(row) ==
    CASE row = "1:1" -> <<1, 1>>
      [] row = "1:2" -> <<1, 2>>
      [] row = "1:3" -> <<1, 3>>
      [] row = "2:3" -> <<2, 3>>

\* C22: applying a preset of the table sets the horizontal and vertical
\* frequencies in the ratio its row names and sets the vertical phase
\* minus the horizontal phase to the angle delta the preset names.
C22_PresetRatioAndPhase ==
    [][ (event'.type = "preset"
           /\ PresetApplies(event', mode', show_presets, preset_buttons))
        => LET preset == lissajous_presets(variant)[event'.row][event'.col]
               ratio == RowRatio(event'.row)
           IN  /\ sliders'.horiz_frequency * ratio[2]
                    = sliders'.vert_frequency * ratio[1]
               /\ sliders'.vert_phase - sliders'.horiz_phase = preset.name
      ]_vars

\* C23: in Simul.py a step that applies a preset (in lissajous mode, with
\* the preset menu open) restarts the simulation in that same step: the
\* electron is in its initial state, the trace buffer is empty, the
\* simulated time is 0 and the menu is closed; and a preset click applies
\* only in lissajous mode with the menu open.
C23_PresetRestarts ==
    [][ (variant = "Simul" /\ event'.type = "preset")
        => IF sliders' # sliders \/ show_presets' # show_presets
              \/ PresetApplies(event', mode', show_presets, preset_buttons)
           THEN /\ mode = "lissajous"
                /\ show_presets
                /\ electron' = ElectronReset
                /\ screen_traces' = << >>
                /\ time' = 0
                /\ ~show_presets'
           ELSE /\ electron' = electron
                /\ screen_traces' = screen_traces
                /\ time' = time ]_vars

\* A preset has just been applied in Simul.py in a frame after the first:
\* the menu is closed again, the sliders hold the preset, and the frame
\* before had put events on the screen and moved the time (the draw of
\* that frame painted them).
C23_Witness ==
    /\ variant = "Simul"
    /\ event.type = "preset"
    /\ frames >= 1
    /\ ~show_presets
    /\ preset_buttons
    /\ sliders.horiz_phase = 0
    /\ sliders.vert_frequency = 3 * FREQ
    /\ Len(drawn.circles) > 0
    /\ screen_traces = << >>
    /\ time = 0

\* The z at which the j-th update call of the current transit started.
StartZ(j) == IF j = 1 THEN Z_START ELSE electron.path[j - 1][3]

\* C24: when the electron has reached the screen, its transit had a
\* sub-step that started with z inside the vertical-plate region and one
\* that started with z inside the horizontal-plate region, and a non-zero
\* voltage held on a plate pair during the transit has left a non-zero
\* transverse velocity on that axis.
C24_EveryTransitMeetsBothPlates ==
    (pc = "flight" /\ has_hit_screen(electron))
      => /\ \E j \in 1..Len(electron.path) :
               vertical_plate_start <= StartZ(j)
                 /\ StartZ(j) <= vertical_plate_end
         /\ \E j \in 1..Len(electron.path) :
               horizontal_plate_start <= StartZ(j)
                 /\ StartZ(j) <= horizontal_plate_end
         /\ call.vertical_voltage # 0 => electron.vy # 0
         /\ call.horizontal_voltage # 0 => electron.vx # 0

\* The longest transit: at the lowest voltage of the slider.
LongestTransit ==
    1 + ((screen_distance - Z_START - 1) \div AxialVelocity(ACCEL_MIN))

\* With an acceleration voltage of the slider's range the first update call
\* gives vz > 0, every update call strictly increases z, and a transit
\* never has more sub-steps than the transit at 500 V.
TransitAdvances ==
    [][ call'.op = "update"
        => /\ electron'.vz > 0
           /\ electron'.z > electron.z
           /\ Len(electron'.path) <= LongestTransit ]_vars

\* C25: every transit terminates: after the impulse vz > 0, z strictly
\* increases at every sub-step, and an electron in flight eventually
\* reaches the screen and is reset.
C25_TransitTerminates ==
    /\ TransitAdvances
    /\ (pc = "flight") ~> (pc = "gun" /\ call.op = "reset"
                             /\ electron = ElectronReset)

\* An electron at 500 V has just reached the screen, on the last sub-step
\* of the longest transit.
C25_Witness ==
    /\ pc = "flight"
    /\ call.acceleration_voltage = ACCEL_MIN
    /\ has_hit_screen(electron)
    /\ Len(electron.path) = LongestTransit
\* C26: every event of screen_traces is stamped with a time that is not
\* after the current simulated time, and the stamps never decrease from the
\* oldest event to the newest, whatever frames, pauses, clears, electron
\* resets, mode switches and preset applications came before.
C26_StampsOrderedAndPast ==
    \A k \in 1..Len(screen_traces) :
        /\ screen_traces[k].time <= time
        /\ k < Len(screen_traces)
             => screen_traces[k].time <= screen_traces[k + 1].time

\* Simul.py after a preset restart in the third frame: the time started
\* again from zero, and the buffer holds the events of that frame only.
C26_Witness ==
    /\ variant = "Simul"
    /\ frames = MaxTraceFrames
    /\ events = MaxTraceEvents
    /\ sliders.vert_frequency = 2 * FREQ
    /\ time = 2 * FRAME_MS
    /\ Len(screen_traces) > 0
    /\ \A k \in 1..Len(screen_traces) : screen_traces[k].time = FRAME_MS
\* C27: the plate voltages of a frame are the pair get_voltages returns at
\* the head of update_physics: every sub-step of the frame calls
\* electron.update with that pair, also after a hit has started a new
\* transit, and every event appended in the frame is stamped with the one
\* time of the frame.
C27_OneVoltagePairPerFrame ==
    [][ LET frame_volts == get_voltages(variant, mode, sliders, time)
        IN  /\ pc = "update"
                 => /\ electron' = ElectronUpdate(variant, electron, DT,
                                                  sliders.acceleration_voltage,
                                                  frame_volts[1], frame_volts[2])
                    /\ call' = UpdateCall(sliders.acceleration_voltage,
                                          frame_volts[1], frame_volts[2])
            /\ pc \in {"update", "check"}
                 => /\ time' = time /\ volts' = volts /\ sliders' = sliders
                    /\ mode' = mode
            /\ pc = "check"
                 => \/ screen_traces' = screen_traces
                    \/ /\ Len(screen_traces') = Len(screen_traces) + 1
                       /\ screen_traces'[Len(screen_traces')].time = time
                       /\ electron' = ElectronReset ]_vars

\* Lissajous mode in the second frame: the frame has recorded two hits
\* and the electron is on its way again, under a vertical voltage that
\* differs from the one of the first frame.
C27_Witness ==
    /\ mode = "lissajous"
    /\ frames = 1
    /\ pc = "check"
    /\ Len(electron.path) > 1
    /\ volts[1] # 0
    /\ call.vertical_voltage = volts[1]
    /\ Len(screen_traces) >= 4
    /\ screen_traces[1].time < time
    /\ screen_traces[Len(screen_traces)].time = time
    /\ screen_traces[Len(screen_traces) - 1].time = time
\* C28: the Electron of Simul.py and the Electron of simul_prueba.py, given
\* the same calls of update from reset, are mirror images at every step: z,
\* vz and the acceleration flag are equal, x, y, vx and vy of one are the
\* negation of the other's, the recorded paths mirror each other, and both
\* report the same hit and the same in-bounds result.
MirrorPoint(p) == <<-p[1], -p[2], p[3]>>

C28_MirrorImages ==
    pc = "mirror" =>
        LET a == electron
            b == twin.electron
        IN  /\ a.z = b.z /\ a.vz = b.vz
            /\ a.initial_acceleration_done = b.initial_acceleration_done
            /\ a.x = -b.x /\ a.y = -b.y /\ a.vx = -b.vx /\ a.vy = -b.vy
            /\ Len(a.path) = Len(b.path)
            /\ \A k \in 1..Len(a.path) : a.path[k] = MirrorPoint(b.path[k])
            /\ has_hit_screen(a) = has_hit_screen(b)
            /\ is_within_screen_bounds(a) = is_within_screen_bounds(b)

\* Both electrons on the screen, deflected on both axes to opposite sides.
C28_Witness ==
    /\ pc = "mirror"
    /\ has_hit_screen(electron) /\ has_hit_screen(twin.electron)
    /\ electron.x # 0 /\ electron.y # 0
    /\ twin.electron.x = -electron.x /\ twin.electron.y = -electron.y
    /\ is_within_screen_bounds(electron)
\* C29 as stated: compute_xy returns a position with |x| <= margin and
\* |y| <= margin (margin = 0.95 * SCREEN_SCALE) in both modes, for every
\* control value.
C29_PositionWithinMargin ==
    Abs(S.x) <= margin /\ Abs(S.y) <= margin

\* C29, amended: the position an unpaused frame computes is, in manual
\* mode, each raw deflection K * V clipped to [-margin, margin] on its own;
\* in Lissajous mode it is both raw deflections multiplied by the one
\* factor min(1, margin / max(|raw_x|, |raw_y|, 1e-9)), each product
\* rounded, which leaves |x| and |y| at most one unit in the last place
\* above margin.
C29_PositionWithinRoundedMargin ==
    [][ (event'.type = "update_frame" /\ ~S.paused) =>
          LET K == deflection_gain(C.Va)
              raw == RawXY(C, S'.t)
              max_abs == Max(Max(Abs(raw[1]), Abs(raw[2])), TINY)
              scale == Min(Quantum, FloatDiv(margin, max_abs))
          IN  IF S.mode_lissajous
              THEN /\ S'.x = FloatMul(raw[1], scale)
                   /\ S'.y = FloatMul(raw[2], scale)
                   /\ Abs(S'.x) <= margin + Ulp(margin)
                   /\ Abs(S'.y) <= margin + Ulp(margin)
              ELSE /\ S'.x = Clip(FloatMul(K, C.Vx), -margin, margin)
                   /\ S'.y = Clip(FloatMul(K, C.Vy), -margin, margin)
                   /\ Abs(S'.x) <= margin
                   /\ Abs(S'.y) <= margin ]_vars

\* A Lissajous frame whose deflections were scaled down, and whose larger
\* one came out one unit in the last place above margin.
C29_Witness ==
    /\ event.type = "update_frame"
    /\ S.mode_lissajous /\ ~S.paused
    /\ Abs(RawXY(C, S.t)[2]) > margin
    /\ S.x # 0
    /\ Abs(S.y) = margin + Ulp(margin)
\* C30: the trail never holds more than TRAIL_MAXLEN entries and its
\* timestamps increase strictly from the oldest entry to the newest, after
\* any frames, pauses, mode switches and resets; on_reset sets the time to
\* zero and empties the trail in one step, on_mode empties the trail, an
\* unpaused frame appends exactly one entry, stamped with the advanced
\* time, and a paused frame appends none.
TrailOrdered ==
    /\ Len(S.trail) <= TRAIL_MAXLEN
    /\ \A k \in 1..(Len(S.trail) - 1) : S.trail[k][1] < S.trail[k + 1][1]

TrailSteps ==
    /\ event'.type = "on_reset" => S'.t = 0 /\ S'.trail = << >>
    /\ event'.type = "on_mode" => S'.trail = << >> /\ S'.t = S.t
    /\ event'.type = "on_pause" => S'.trail = S.trail /\ S'.t = S.t
    /\ (event'.type = "update_frame" /\ S.paused) => S' = S
    /\ (event'.type = "update_frame" /\ ~S.paused) =>
          LET n == Len(S'.trail)
              dropped == Len(S.trail) + 1 - n
          IN  /\ S'.t > S.t
              /\ n = Min(Len(S.trail) + 1, TRAIL_MAXLEN)
              /\ S'.trail[n] = <<S'.t, S'.x, S'.y>>
              /\ \A k \in 1..(n - 1) : S'.trail[k] = S.trail[k + dropped]

C30_TrailBoundedAndOrdered == []TrailOrdered /\ [][TrailSteps]_vars

\* The full trail after one more frame: still TRAIL_MAXLEN entries, the
\* oldest one gone, the newest one stamped with the time of the frame.
C30_Witness ==
    /\ event.type = "update_frame"
    /\ Len(S.trail) = TRAIL_MAXLEN
    /\ S.t = (TRAIL_MAXLEN + 1) * FrameStep(TRUE)
    /\ S.trail[1][1] = 2 * FrameStep(TRUE)
    /\ S.trail[TRAIL_MAXLEN][1] = S.t

=============================================================================
